---- MODULE Spec2Model ----
(***************************************************************************)
(* Model of the audio capture / transcription / agenda core of meet-qa.    *)
(*                                                                         *)
(* Three threads share the AudioState: the device callback (cpal stream),  *)
(* the background worker spawned by AudioState::spawn_worker, and the      *)
(* handler thread that runs the tauri commands.  Every std::sync::Mutex of *)
(* AudioState is a lock with an owner and a poison flag.  A pass of        *)
(* score_agenda_items is modelled on its own, one item and one request at  *)
(* a time.                                                                 *)
(*                                                                         *)
(* Units: time is counted in ticks of 1/TicksPerSec second; samples are    *)
(* integers (amplitude units); scores are hundredths.                      *)
(***************************************************************************)
EXTENDS Integers, Sequences, FiniteSets, TLC

\* ------------------------------------------------------------------ bounds
\* max_samples = SAMPLE_RATE * buffer_duration_secs, scaled down
MaxSamples == 3
\* longest slice a device callback delivers
MaxInputLen == 2
\* largest age of the cache timestamp the clock runs to, in ticks
MaxTime == 2
\* longest model reply, in tokens
MaxReplyLen == 3

\* --------------------------------------------------------- program constants
SAMPLE_RATE == 16000
TicksPerSec == 2
silence_threshold == 2
min_chars == 2

\* ------------------------------------------------------------ value domains
Samples == {0, 2}
Devices == {"mic", "usb", "bt"}
Texts == {<<>>, <<"a">>, <<"a", "b">>}

\* a text is a sequence of characters; "zdot" stands for U+017C, a letter
\* that takes two bytes in UTF-8, the others take one
Utf8Len(c) == IF c = "zdot" THEN 2 ELSE 1

\* what the speech model may produce in a language: English gives ASCII,
\* the other languages also letters outside it
TextsIn(language) ==
  IF language = "en" THEN Texts ELSE Texts \cup {<<"zdot">>}
Tokens == {"{", "}", "m", "x"}
Locks == {"buffer", "last_transcript", "last_updated", "transcription_mode",
          "whisper_language", "agenda", "stream_guard", "device_name"}
Threads == {"worker", "cmd", "cb"}

None == <<>>
Some(x) == <<x>>

SeqsUpTo(S, n) == UNION {[1..k -> S] : k \in 0..n}

\* the stream's input_sample_rate, as reported by the device
RateOf(d) == CASE d = "mic" -> 16000 [] d = "usb" -> 32000 [] OTHER -> 8000

\* ---------------------------------------------------------------------- f32
\* an f32 is [s, m, e] with the value s * m * 2^e: s is 1 or -1, m is 0 for
\* zero and a 24-bit significand otherwise; the values followed stay far
\* from the ends of the exponent range, so e is not bounded
f32(s, m, e) == [s |-> s, m |-> m, e |-> e]

f32_zero == f32(1, 0, 0)

\* round to nearest, ties to even: r * 2^e, plus a fraction of 2^e below
\* one unit when sticky, to 24 bits
RECURSIVE f32_round(_, _, _, _)
f32_round(s, r, sticky, e) ==
  IF r = 0 THEN f32_zero
  ELSE IF r >= 2^25 THEN f32_round(s, r \div 2, sticky \/ r % 2 = 1, e + 1)
  ELSE IF r >= 2^24
    THEN LET m == r \div 2
             up == r % 2 = 1 /\ (sticky \/ m % 2 = 1)
         IN IF ~up THEN f32(s, m, e + 1)
            ELSE IF m + 1 = 2^24 THEN f32(s, 2^23, e + 2)
            ELSE f32(s, m + 1, e + 1)
  ELSE IF r >= 2^23 THEN f32(s, r, e)
  ELSE f32_round(s, 2 * r, FALSE, e - 1)

\* n as f32, for an n of fewer than 24 bits
f32_from(n) == IF n < 0 THEN f32_round(-1, -n, FALSE, 0) ELSE f32_round(1, n, FALSE, 0)

\* |x| < |y|
f32_below(x, y) ==
  IF y.m = 0 THEN FALSE
  ELSE IF x.m = 0 THEN TRUE
  ELSE x.e < y.e \/ (x.e = y.e /\ x.m < y.m)

f32_abs(x) == f32(1, x.m, x.e)

f32_neg(x) == IF x.m = 0 THEN x ELSE f32(-x.s, x.m, x.e)

\* x + y: the smaller operand is shifted under three more bits and a sticky
\* bit of the larger, and the sum is rounded once
f32_add(x, y) ==
  IF x.m = 0 THEN y
  ELSE IF y.m = 0 THEN x
  ELSE LET big == IF f32_below(x, y) THEN y ELSE x
           small == IF f32_below(x, y) THEN x ELSE y
           d == big.e - small.e
           b == big.m * 8
           sv == IF d >= 27 THEN 0 ELSE (small.m * 8) \div 2^d
           lost == IF d >= 27 THEN TRUE ELSE (small.m * 8) % 2^d # 0
       IN IF big.s = small.s
            THEN f32_round(big.s, b + sv, lost, big.e - 3)
            ELSE IF lost
              THEN f32_round(big.s, b - sv - 1, TRUE, big.e - 3)
              ELSE f32_round(big.s, b - sv, FALSE, big.e - 3)

f32_sub(x, y) == f32_add(x, f32_neg(y))

\* x * y: the 48-bit product of the significands from 12-bit halves
f32_mul(x, y) ==
  IF x.m = 0 \/ y.m = 0 THEN f32_zero
  ELSE LET xh == x.m \div 2^12
           xl == x.m % 2^12
           yh == y.m \div 2^12
           yl == y.m % 2^12
           mid == xh * yl + xl * yh
           low == xl * yl + (mid % 2^12) * 2^12
           high == xh * yh + mid \div 2^12 + low \div 2^24
           rest == low % 2^24
       IN f32_round(x.s * y.s, high * 4 + rest \div 2^22, rest % 2^22 # 0,
                    x.e + y.e + 22)

\* k more bits of the quotient q, with remainder r, of a division by d
RECURSIVE LongDiv(_, _, _, _)
LongDiv(q, r, d, k) ==
  IF k = 0 THEN <<q, r>>
  ELSE IF 2 * r >= d THEN LongDiv(2 * q + 1, 2 * r - d, d, k - 1)
  ELSE LongDiv(2 * q, 2 * r, d, k - 1)

\* x / y for a y that is not zero
f32_div(x, y) ==
  IF x.m = 0 THEN f32_zero
  ELSE LET qr == LongDiv(x.m \div y.m, x.m % y.m, y.m, 26)
       IN f32_round(x.s * y.s, qr[1], qr[2] # 0, x.e - y.e - 26)

\* the square root of n * 4^k bit pair by bit pair: root and remainder after
\* the pairs of n from pair i down, then k pairs of zeros
RECURSIVE RootBits(_, _, _, _, _)
RootBits(root, rem, n, i, k) ==
  IF i < 0 /\ k = 0 THEN <<root, rem>>
  ELSE LET pair == IF i >= 0 THEN (n \div 4^i) % 4 ELSE 0
           r == 4 * rem + pair
           t == 4 * root + 1
           ni == IF i >= 0 THEN i - 1 ELSE i
           nk == IF i >= 0 THEN k ELSE k - 1
       IN IF r >= t THEN RootBits(2 * root + 1, r - t, n, ni, nk)
          ELSE RootBits(2 * root, r, n, ni, nk)

\* x.sqrt() for an x that is not negative
f32_sqrt(x) ==
  IF x.m = 0 THEN f32_zero
  ELSE LET odd == x.e % 2 # 0
           n == IF odd THEN 2 * x.m ELSE x.m
           e == IF odd THEN x.e - 1 ELSE x.e
           rr == RootBits(0, 0, n, 12, 13)
       IN f32_round(1, rr[1], rr[2] # 0, e \div 2 - 13)

\* ------------------------------------------------------------- ring buffer
\* the push without the eviction
PushNoEvict(buf, val, max) == Append(buf, val)

\* push_back, then pop_back when the length exceeds max_samples
PushEvictNewest(buf, val, max) ==
  LET pushed == Append(buf, val)
  IN IF Len(pushed) > max THEN SubSeq(pushed, 1, Len(pushed) - 1) ELSE pushed

\* push_back, then pop_front when the length exceeds max_samples
PushEvict(buf, val, max) ==
  LET pushed == Append(buf, val)
  IN IF Len(pushed) > max THEN Tail(pushed) ELSE pushed

\* the loop with the index advanced by one whatever the rate
RECURSIVE WriteLoopPlain(_, _, _, _, _)
WriteLoopPlain(buf, input, rate, max, k) ==
  IF k >= Len(input)
    THEN buf
    ELSE WriteLoopPlain(PushEvict(buf, input[k + 1], max), input, rate, max, k + 1)

\* the while loop of write_input_data: the k-th iteration reads input at
\* trunc(k * input_rate / SAMPLE_RATE); for the ratios 0.5, 1, 2 the f32
\* accumulator is exact, so the index is the integer quotient
RECURSIVE WriteLoop(_, _, _, _, _)
WriteLoop(buf, input, rate, max, k) ==
  LET i == (k * rate) \div SAMPLE_RATE
  IN IF i >= Len(input)
       THEN buf
       ELSE WriteLoop(PushEvict(buf, input[i + 1], max), input, rate, max, k + 1)

\* the loop started at the second iteration
write_from_second(input, buf, rate, max) == WriteLoop(buf, input, rate, max, 1)

write_input_data(input, buf, rate, max) == WriteLoop(buf, input, rate, max, 0)

\* ---------------------------------------------------------- transcription
RECURSIVE SumSq(_)
SumSq(s) == IF s = <<>> THEN 0 ELSE Head(s) * Head(s) + SumSq(Tail(s))

\* rms < threshold, squared on both sides: mean(x^2) < threshold^2
Silent(s, threshold) == SumSq(s) < threshold * threshold * Len(s)

RECURSIVE Sum(_)
Sum(s) == IF s = <<>> THEN 0 ELSE Head(s) + Sum(Tail(s))

Abs(x) == IF x < 0 THEN -x ELSE x

RECURSIVE Peak(_)
Peak(s) ==
  IF s = <<>> THEN 0
  ELSE LET p == Peak(Tail(s))
       IN IF Abs(Head(s)) > p THEN Abs(Head(s)) ELSE p

\* the samples centred and scaled in whole numbers, in hundredths of full
\* scale
CentredScaled(s) ==
  IF s = <<>> THEN s
  ELSE LET n == Len(s)
           centred == [k \in 1..n |-> n * s[k] - Sum(s)]
           max_peak == Peak(centred)
       IN IF max_peak > 0
            THEN [k \in 1..n |-> (centred[k] * 95) \div max_peak]
            ELSE centred

\* the samples of the buffer as the f32 they are
ToF32(s) == [k \in 1..Len(s) |-> f32_from(s[k])]

\* samples.iter().sum::<f32>()
RECURSIVE f32_sum(_)
f32_sum(s) ==
  IF s = <<>> THEN f32_zero
  ELSE f32_add(f32_sum(SubSeq(s, 1, Len(s) - 1)), s[Len(s)])

\* the fold of s.abs() with max, from 0.0
RECURSIVE f32_peak(_)
f32_peak(s) ==
  IF s = <<>> THEN f32_zero
  ELSE LET p == f32_peak(SubSeq(s, 1, Len(s) - 1))
       IN IF f32_below(p, s[Len(s)]) THEN f32_abs(s[Len(s)]) ELSE p

\* the peak is brought to the target without the mean being taken off
ScaledOnly(s, floor, target) ==
  IF s = <<>> THEN s
  ELSE LET max_peak == f32_peak(s)
       IN IF f32_below(floor, max_peak)
            THEN LET gain == f32_div(target, max_peak)
                 IN [k \in 1..Len(s) |-> f32_mul(s[k], gain)]
            ELSE s

\* the body the two preprocess_audio share: the mean is taken off every
\* sample, and if the peak is above the floor every sample is multiplied by
\* target / peak
CentreAndScale(s, floor, target) ==
  IF s = <<>> THEN s
  ELSE LET mean == f32_div(f32_sum(s), f32_from(Len(s)))
           centred == [k \in 1..Len(s) |-> f32_sub(s[k], mean)]
           max_peak == f32_peak(centred)
       IN IF f32_below(floor, max_peak)
            THEN LET gain == f32_div(target, max_peak)
                 IN [k \in 1..Len(s) |-> f32_mul(centred[k], gain)]
            ELSE centred

\* transcription.rs: max_peak > 0.0, gain = 0.95 / max_peak
preprocess_audio(s) == CentreAndScale(s, f32_zero, f32(1, 15938355, -24))

\* audio.rs: max_amplitude > 1e-6, scale = 0.9 / max_amplitude
audio_preprocess_audio(s) ==
  CentreAndScale(s, f32(1, 8796093, -43), f32(1, 15099494, -24))

\* the gate taken on the samples as preprocess_audio leaves them
ModelInvokedProcessed(s, threshold) ==
  s # <<>> /\ ~Silent(CentredScaled(s), threshold)

\* create_state / full are reached: the snapshot is not empty and its rms,
\* as it came from the buffer, is not below the threshold
ModelInvoked(s, threshold) == s # <<>> /\ ~Silent(s, threshold)

\* String::len() counts the bytes of the UTF-8 encoding
RECURSIVE ByteLen(_)
ByteLen(t) == IF t = <<>> THEN 0 ELSE Utf8Len(Head(t)) + ByteLen(Tail(t))

\* the number of characters of a text
CharLen(t) == Len(t)

\* state.full(params, &processed_samples) and the segments: some text in
\* the language, or an error of the speech model
full(processed, language) ==
  {<<"ok", t>> : t \in TextsIn(language)} \cup {<<"err", <<>>>>}

\* the results run_transcription can give for a snapshot: <<"ok", text>> or
\* <<"err", <<>>>>; the speech model is invoked only past the gates, on the
\* preprocessed copy
run_transcription(s, threshold, language) ==
  IF ~ModelInvoked(s, threshold) THEN {<<"ok", <<>>>>}
  ELSE full(preprocess_audio(ToF32(s)), language)

\* ---------------------------------------------------------- reply scanning
RECURSIVE FindFirst(_, _, _)
FindFirst(s, c, i) ==
  IF i > Len(s) THEN 0 ELSE IF s[i] = c THEN i ELSE FindFirst(s, c, i + 1)

RECURSIVE FindLast(_, _, _)
FindLast(s, c, i) ==
  IF i < 1 THEN 0 ELSE IF s[i] = c THEN i ELSE FindLast(s, c, i - 1)

\* json_str.find('{') / json_str.rfind('}'): 1-based position, 0 for None
find(s, c) == FindFirst(s, c, 1)
rfind(s, c) == FindLast(s, c, Len(s))

\* &json_str[start..=end]: <<"none">> when a brace is missing, <<"panic">>
\* when the inclusive range is inverted (start > end + 1), else the slice
BraceSlice(s) ==
  LET start == find(s, "{")
      end == rfind(s, "}")
  IN IF start = 0 \/ end = 0 THEN <<"none", <<>>>>
     ELSE IF start > end + 1 THEN <<"panic", <<>>>>
     ELSE <<"slice", SubSeq(s, start, end)>>

\* serde_json::from_str::<HashMap<String, String>>: "{}" is the empty map,
\* "{" members "}" the map with the reply's keys, anything else an error
ParseMap(clean, keys) ==
  IF clean = <<"{", "}">> THEN Some({})
  ELSE IF clean = <<"{", "m", "}">> THEN Some(keys)
  ELSE None

ReplyTexts == SeqsUpTo(Tokens, MaxReplyLen)

\* the text holds a JSON object with members: "{", "m", "}" in a row
HasObject(t) ==
  \E k \in 1..(Len(t) - 2) : t[k] = "{" /\ t[k + 1] = "m" /\ t[k + 2] = "}"

\* the keys the members of that object may have
ReplyKeys(t) == IF HasObject(t) THEN SUBSET (0..2) ELSE {{}}

\* what the generate endpoint may answer to check_agenda: no connection, a
\* body that is not an OllamaResponse, or a response text
AgendaReplies ==
  {[kind |-> "unreachable", text |-> <<>>, keys |-> {}],
   [kind |-> "badbody", text |-> <<>>, keys |-> {}]}
  \cup UNION {{[kind |-> "body", text |-> t, keys |-> ks] : ks \in ReplyKeys(t)} :
               t \in ReplyTexts}

\* ------------------------------------------------------------------- state
VARIABLES
  buffer, max_samples, streams, stream_guard, device_name,
  lockOwner, poisoned,
  last_transcript, last_updated_age,
  is_recording, transcription_mode, whisper_language, cache_freshness_secs,
  agenda_check_cooldown_secs, since_scan,
  detect_model, embedding_model, agenda,
  wPc, wSamples, wText, last_detected_text, wUpdates,
  cPc, cOp, cItems, cCfg, cName, cSamples, cText, cResult, cPath, cFresh, cCached,
  cbPc, cbStream,
  sPc, sItems, sIdx, sTextEmb, sReply, sUpdates, sSent, sPass,
  iPc, iInput, iRate, iBefore, iAll,
  tPc, tSamples, tThreshold, tResult, tInvoked,
  callPc, callArgs, callRet

bufVars == <<buffer, max_samples, streams, stream_guard, device_name>>
lockVars == <<lockOwner, poisoned>>
cacheVars == <<last_transcript, last_updated_age>>
cfgVars == <<transcription_mode, whisper_language, cache_freshness_secs,
             detect_model, embedding_model>>
wVars == <<wPc, wSamples, wText, last_detected_text, wUpdates>>
cLocals == <<cOp, cItems, cCfg, cName, cSamples, cText, cResult, cPath, cFresh, cCached>>
cVars == <<cPc, cLocals>>
cbVars == <<cbPc, cbStream>>
scoreVars == <<sPc, sItems, sIdx, sTextEmb, sReply, sUpdates, sSent, sPass>>
timeVars == <<agenda_check_cooldown_secs, since_scan>>
ingestVars == <<iPc, iInput, iRate, iBefore, iAll>>
transVars == <<tPc, tSamples, tThreshold, tResult, tInvoked>>
callVars == <<callPc, callArgs, callRet>>
coreVars == <<bufVars, lockVars, cacheVars, is_recording, cfgVars, timeVars, ingestVars,
              transVars, callVars,
              agenda, wVars, cVars, cbVars>>
vars == <<coreVars, scoreVars>>

\* -------------------------------------------------------------------- locks
Held(th) == {l \in Locks : lockOwner[l] = th}
Free(l) == lockOwner[l] = "none"

\* Mutex::lock() returning the guard
Take(th, l) ==
  /\ lockOwner' = [lockOwner EXCEPT ![l] = th]
  /\ UNCHANGED poisoned

\* guards going out of scope
Drop(th, ls) ==
  /\ lockOwner' = [l \in Locks |->
                     IF l \in ls /\ lockOwner[l] = th THEN "none" ELSE lockOwner[l]]
  /\ UNCHANGED poisoned

\* a panic unwinds the thread: every guard it holds is dropped and its mutex
\* is poisoned
Panic(th) ==
  /\ lockOwner' = [l \in Locks |-> IF lockOwner[l] = th THEN "none" ELSE lockOwner[l]]
  /\ poisoned' = poisoned \cup Held(th)

\* ------------------------------------------------------------------- agenda
\* an item as the frontend holds it: scores are in hundredths, and an
\* answered item carries the full score
Item(id, st) ==
  [id |-> id, text |-> "q", status |-> st, answer |-> None,
   score |-> IF st = "answered" THEN 100 ELSE 0,
   evidence |-> <<>>, embedding |-> None]

\* the lists the frontend passes to update_agenda
AgendaInputs ==
  {<<>>, <<Item("g2", "answered"), Item("g1", "pending")>>}

Embeddings == {<<1, 0>>, <<0, 1>>}

\* the configurations update_config may install
ConfigInputs ==
  {[transcription_mode |-> "speed", whisper_language |-> "en",
    cache_freshness_secs |-> 1, agenda_check_cooldown_secs |-> 5,
    ollama_min_chars |-> 1],
   [transcription_mode |-> "accuracy", whisper_language |-> "pl",
    cache_freshness_secs |-> 0, agenda_check_cooldown_secs |-> 20,
    ollama_min_chars |-> 3]}

\* items.iter().filter(|i| i.status == "pending")
Pending(items) == SelectSeq(items, LAMBDA i : i.status = "pending")

\* the (id, answer) updates check_agenda derives from a parsed map: a key
\* counts when it is an index into the pending items
KeyUpdates(keys, items) ==
  LET pend == Pending(items)
  IN {pend[k].id : k \in {k \in keys : k > 0 /\ k <= Len(pend)}}

\* the result of check_agenda for a reply: <<"ok", ids>> or <<"panic", {}>>
check_agenda(reply, items) ==
  IF reply.kind # "body" THEN <<"ok", {}>>
  ELSE LET sl == BraceSlice(reply.text)
       IN IF sl[1] = "panic" THEN <<"panic", {}>>
          ELSE IF sl[1] = "none" THEN <<"ok", {}>>
          ELSE LET parsed == ParseMap(sl[2], reply.keys)
               IN IF parsed = None THEN <<"ok", {}>>
                  ELSE <<"ok", KeyUpdates(parsed[1], items)>>

\* the second agenda block putting back an item for every update whose id
\* is gone
ApplyUpdatesUpserting(items, ids) ==
  LET present == {items[k].id : k \in 1..Len(items)}
      missing == ids \ present
      RECURSIVE Lost(_)
      Lost(s) == IF s = {} THEN <<>>
                 ELSE LET id == CHOOSE x \in s : TRUE
                      IN <<[id |-> id, text |-> "q", status |-> "answered",
                            answer |-> Some("ans"), score |-> 0,
                            evidence |-> <<>>, embedding |-> None]>>
                         \o Lost(s \ {id})
  IN [k \in 1..Len(items) |->
        IF items[k].id \in ids
          THEN [items[k] EXCEPT !.status = "answered", !.answer = Some("ans")]
          ELSE items[k]] \o Lost(missing)

\* the worker's second agenda block: every update whose id is still present
\* marks its item answered
ApplyUpdates(items, ids) ==
  [k \in 1..Len(items) |->
     IF items[k].id \in ids
       THEN [items[k] EXCEPT !.status = "answered", !.answer = Some("ans")]
       ELSE items[k]]

NoConfig ==
  [transcription_mode |-> "", whisper_language |-> "", cache_freshness_secs |-> 0,
   agenda_check_cooldown_secs |-> 0, ollama_min_chars |-> 0]

\* -------------------------------------------------------------------- Init
InitState ==
  /\ buffer = <<>>
  /\ streams = <<"mic">>
  /\ stream_guard = Some("mic")
  /\ device_name = "mic"
  /\ lockOwner = [l \in Locks |-> "none"]
  /\ poisoned = {}
  /\ last_transcript = <<>>
  /\ last_updated_age = 0
  /\ is_recording = TRUE
  /\ transcription_mode = "speed"
  /\ whisper_language = "en"
  /\ cache_freshness_secs = 1
  /\ agenda_check_cooldown_secs = 20
  /\ since_scan = -1
  /\ agenda = <<>>
  /\ wPc = "sleep" /\ wSamples = <<>> /\ wText = <<>>
  /\ last_detected_text = <<>> /\ wUpdates = {}
  /\ cPc = "idle" /\ cOp = "none" /\ cItems = <<>> /\ cCfg = NoConfig
  /\ cName = "" /\ cSamples = <<>> /\ cText = <<>>
  /\ cResult = <<"none", <<>>>> /\ cPath = "none" /\ cFresh = FALSE
  /\ cCached = <<>>
  /\ cbPc = "idle" /\ cbStream = "mic"

\* no scoring pass is under way
NoReply == [kind |-> "none"]

\* no ingest is followed call by call
IngestIdle ==
  /\ iPc = "off" /\ iInput = <<>> /\ iRate = 0 /\ iBefore = <<>> /\ iAll = <<>>

\* no call of a function is followed on its own
CallIdle == callPc = "off" /\ callArgs = <<>> /\ callRet = <<>>

\* no call of run_transcription is followed on its own
TransIdle ==
  /\ tPc = "off" /\ tSamples = <<>> /\ tThreshold = 0
  /\ tResult = <<"none", <<>>>> /\ tInvoked = FALSE

ScoreIdle ==
  /\ sPc = "off" /\ sItems = <<>> /\ sIdx = 0 /\ sTextEmb = None
  /\ sReply = NoReply /\ sUpdates = <<>> /\ sSent = <<>> /\ sPass = 0

\* the state after AudioState::new, for a one-sample buffer and every choice
\* of OLLAMA_MODEL
Init ==
  /\ InitState
  /\ ScoreIdle
  /\ IngestIdle
  /\ TransIdle
  /\ CallIdle
  /\ max_samples = 1
  /\ detect_model \in BOOLEAN
  /\ embedding_model = FALSE

\* --------------------------------------------------------------- the clock
\* last_updated holds an Instant that is only ever read through elapsed():
\* the state keeps its age in ticks, which the clock advances and
\* Instant::now() resets to 0
Tick ==
  /\ last_updated_age < MaxTime
  /\ last_updated_age' = last_updated_age + 1
  /\ UNCHANGED <<scoreVars, callVars, ingestVars, transVars, timeVars, bufVars, lockVars, last_transcript, is_recording, cfgVars, agenda,
                 wVars, cVars, cbVars>>

\* --------------------------------------------------------- device callback
\* the closure going on to write_input_data whatever the flag says
CB_CheckAlways ==
  /\ cbPc = "idle"
  /\ \E k \in 1..Len(streams) : cbStream' = streams[k]
  /\ cbPc' = "want"
  /\ UNCHANGED <<scoreVars, callVars, ingestVars, transVars, timeVars, bufVars, lockVars, cacheVars, is_recording, cfgVars,
                 agenda, wVars, cVars>>

\* the closure's is_recording load
CB_Check ==
  /\ cbPc = "idle"
  /\ is_recording
  /\ \E k \in 1..Len(streams) : cbStream' = streams[k]
  /\ cbPc' = "want"
  /\ UNCHANGED <<scoreVars, callVars, ingestVars, transVars, timeVars, bufVars, lockVars, cacheVars, is_recording, cfgVars,
                 agenda, wVars, cVars>>

\* write_input_data: buffer.lock().unwrap()
CB_Lock ==
  /\ cbPc = "want"
  /\ Free("buffer")
  /\ IF "buffer" \in poisoned
       THEN Panic("cb") /\ cbPc' = "panicked"
       ELSE Take("cb", "buffer") /\ cbPc' = "locked"
  /\ UNCHANGED <<scoreVars, callVars, ingestVars, transVars, timeVars, bufVars, cacheVars, is_recording, cfgVars, agenda,
                 wVars, cVars, cbStream>>

\* write_input_data: the resampling loop, then the guard is dropped
CB_Write ==
  /\ cbPc = "locked"
  /\ \E input \in SeqsUpTo(Samples, MaxInputLen) :
       buffer' = write_input_data(input, buffer, RateOf(cbStream), max_samples)
  /\ Drop("cb", {"buffer"})
  /\ cbPc' = "idle"
  /\ UNCHANGED <<scoreVars, callVars, ingestVars, transVars, timeVars, max_samples, streams, stream_guard, device_name, cacheVars,
                 is_recording, cfgVars, agenda, wVars, cVars, cbStream>>

\* ------------------------------------------------------------------ worker
\* what a worker step leaves alone besides its own variables and the locks
wFrame == <<bufVars, is_recording, cfgVars, cVars, cbVars>>

\* the tick is over (continue, or the end of the loop body): the guards of
\* the tick are dropped and its locals are gone
EndTick ==
  /\ wPc' = "sleep"
  /\ wSamples' = <<>>
  /\ wText' = <<>>
  /\ wUpdates' = {}
  /\ Drop("worker", Locks)

\* the sleep is over; the detect_model / is_recording test skips the tick
W_WakeStep ==
  /\ wPc = "sleep"
  /\ IF ~detect_model \/ ~is_recording
       THEN UNCHANGED wPc
       ELSE wPc' = "chk_agenda"
  /\ UNCHANGED <<scoreVars, callVars, ingestVars, transVars, wFrame, lockVars, cacheVars, agenda, wSamples, wText,
                 last_detected_text, wUpdates>>

\* the wake-up with the time left out
W_Wake == W_WakeStep /\ UNCHANGED timeVars

\* "Skip if agenda is empty": the agenda is locked for the test only
W_CheckAgenda ==
  /\ wPc = "chk_agenda"
  /\ Free("agenda")
  /\ IF "agenda" \in poisoned
       THEN /\ Panic("worker") /\ wPc' = "panicked"
            /\ UNCHANGED <<wSamples, wText, wUpdates>>
       ELSE IF agenda = <<>>
         THEN EndTick
         ELSE /\ wPc' = "snapshot"
              /\ UNCHANGED <<wSamples, wText, wUpdates, lockVars>>
  /\ UNCHANGED <<scoreVars, callVars, ingestVars, transVars, timeVars, wFrame, cacheVars, agenda, last_detected_text>>

\* buffer_bg.lock().unwrap() of the snapshot block
W_LockBuffer ==
  /\ wPc = "snapshot"
  /\ Free("buffer")
  /\ IF "buffer" \in poisoned
       THEN Panic("worker") /\ wPc' = "panicked"
       ELSE Take("worker", "buffer") /\ wPc' = "copy"
  /\ UNCHANGED <<scoreVars, callVars, ingestVars, transVars, timeVars, wFrame, cacheVars, agenda, wSamples, wText, last_detected_text,
                 wUpdates>>

\* the snapshot takes the samples out of the buffer
W_SnapshotDrains ==
  /\ wPc = "copy"
  /\ IF buffer = <<>>
       THEN EndTick /\ UNCHANGED buffer
       ELSE /\ wSamples' = buffer
            /\ buffer' = <<>>
            /\ wPc' = "lock_mode"
            /\ Drop("worker", {"buffer"})
            /\ UNCHANGED <<wText, wUpdates>>
  /\ UNCHANGED <<scoreVars, callVars, ingestVars, transVars, timeVars, max_samples, streams,
                 stream_guard, device_name, is_recording, cfgVars, cVars, cbVars,
                 cacheVars, agenda, last_detected_text>>

\* the copy of the buffer with its guard kept for the rest of the tick
W_SnapshotKeepsGuard ==
  /\ wPc = "copy"
  /\ IF buffer = <<>>
       THEN EndTick
       ELSE /\ wSamples' = buffer
            /\ wPc' = "lock_mode"
            /\ UNCHANGED <<lockVars, wText, wUpdates>>
  /\ UNCHANGED <<scoreVars, callVars, ingestVars, transVars, timeVars, wFrame, cacheVars, agenda, last_detected_text>>

\* the copy of the buffer; an empty snapshot skips the tick
W_Snapshot ==
  /\ wPc = "copy"
  /\ IF buffer = <<>>
       THEN EndTick
       ELSE /\ wSamples' = buffer
            /\ wPc' = "lock_mode"
            /\ Drop("worker", {"buffer"})
            /\ UNCHANGED <<wText, wUpdates>>
  /\ UNCHANGED <<scoreVars, callVars, ingestVars, transVars, timeVars, wFrame, cacheVars, agenda, last_detected_text>>

\* the guards taken in the arguments of run_transcription live as long as
\* the if-let they are the scrutinee of
W_LockMode ==
  /\ wPc = "lock_mode"
  /\ Free("transcription_mode")
  /\ IF "transcription_mode" \in poisoned
       THEN Panic("worker") /\ wPc' = "panicked"
       ELSE Take("worker", "transcription_mode") /\ wPc' = "lock_lang"
  /\ UNCHANGED <<scoreVars, callVars, ingestVars, transVars, timeVars, wFrame, cacheVars, agenda, wSamples, wText, last_detected_text,
                 wUpdates>>

W_LockLang ==
  /\ wPc = "lock_lang"
  /\ Free("whisper_language")
  /\ IF "whisper_language" \in poisoned
       THEN Panic("worker") /\ wPc' = "panicked"
       ELSE Take("worker", "whisper_language") /\ wPc' = "transcribe"
  /\ UNCHANGED <<scoreVars, callVars, ingestVars, transVars, timeVars, wFrame, cacheVars, agenda, wSamples, wText, last_detected_text,
                 wUpdates>>

\* run_transcription on the snapshot: Ok(text) enters the if-let, an Err
\* does not match it
W_Transcribe ==
  /\ wPc = "transcribe"
  /\ \E r \in run_transcription(wSamples, silence_threshold, whisper_language) :
       IF r[1] = "err"
         THEN wPc' = "failed" /\ UNCHANGED wText
         ELSE wPc' = "lock_t" /\ wText' = r[2]
  /\ UNCHANGED <<scoreVars, callVars, ingestVars, transVars, timeVars, wFrame, lockVars, cacheVars, agenda, wSamples,
                 last_detected_text, wUpdates>>

\* the Err arm stores an empty transcript in the cache before the tick ends
W_FailedClears ==
  /\ wPc = "failed"
  /\ EndTick
  /\ last_transcript' = <<>>
  /\ last_updated_age' = 0
  /\ UNCHANGED <<scoreVars, callVars, ingestVars, transVars, timeVars, wFrame, agenda, last_detected_text>>

\* the Err falls out of the if-let, which has no else: the loop body ends
W_Failed ==
  /\ wPc = "failed"
  /\ EndTick
  /\ UNCHANGED <<scoreVars, callVars, ingestVars, transVars, timeVars, wFrame, cacheVars, agenda, last_detected_text>>

\* transcript_bg.lock().unwrap()
W_LockTranscript ==
  /\ wPc = "lock_t"
  /\ Free("last_transcript")
  /\ IF "last_transcript" \in poisoned
       THEN Panic("worker") /\ wPc' = "panicked"
       ELSE Take("worker", "last_transcript") /\ wPc' = "lock_u"
  /\ UNCHANGED <<scoreVars, callVars, ingestVars, transVars, timeVars, wFrame, cacheVars, agenda, wSamples, wText, last_detected_text,
                 wUpdates>>

\* updated_bg.lock().unwrap(), with the transcript guard held
W_LockUpdated ==
  /\ wPc = "lock_u"
  /\ Free("last_updated")
  /\ IF "last_updated" \in poisoned
       THEN Panic("worker") /\ wPc' = "panicked"
       ELSE Take("worker", "last_updated") /\ wPc' = "write"
  /\ UNCHANGED <<scoreVars, callVars, ingestVars, transVars, timeVars, wFrame, cacheVars, agenda, wSamples, wText, last_detected_text,
                 wUpdates>>

\* the cache is overwritten and both guards are dropped at once
W_WriteCacheScoped ==
  /\ wPc = "write"
  /\ last_transcript' = wText
  /\ last_updated_age' = 0
  /\ wPc' = "written"
  /\ Drop("worker", {"last_transcript", "last_updated"})
  /\ UNCHANGED <<scoreVars, callVars, ingestVars, transVars, timeVars, wFrame, agenda, wSamples, wText, last_detected_text, wUpdates>>

\* the cache is overwritten only when the text is not empty
W_WriteCacheNonEmpty ==
  /\ wPc = "write"
  /\ IF wText # <<>>
       THEN last_transcript' = wText /\ last_updated_age' = 0
       ELSE UNCHANGED cacheVars
  /\ wPc' = "written"
  /\ UNCHANGED <<scoreVars, callVars, ingestVars, transVars, timeVars, wFrame, lockVars, agenda, wSamples, wText, last_detected_text,
                 wUpdates>>

\* *t_guard = text.clone(); *u_guard = Instant::now(); both guards stay
W_WriteCache ==
  /\ wPc = "write"
  /\ last_transcript' = wText
  /\ last_updated_age' = 0
  /\ wPc' = "written"
  /\ UNCHANGED <<scoreVars, callVars, ingestVars, transVars, timeVars, wFrame, lockVars, agenda, wSamples, wText, last_detected_text,
                 wUpdates>>

\* the gates before scanning: silence, no change, insufficient text
\* (text.len() >= min_chars)
W_Gate ==
  /\ wPc = "written"
  /\ IF wText = <<>> \/ wText = last_detected_text \/ ByteLen(wText) < min_chars
       THEN EndTick
       ELSE /\ wPc' = "lock_agenda"
            /\ UNCHANGED <<wSamples, wText, wUpdates, lockVars>>
  /\ UNCHANGED <<scoreVars, callVars, ingestVars, transVars, timeVars, wFrame, cacheVars, agenda, last_detected_text>>

\* agenda_bg.lock().unwrap() of the scan block, the cache guards still held
W_LockAgenda ==
  /\ wPc = "lock_agenda"
  /\ Free("agenda")
  /\ IF "agenda" \in poisoned
       THEN Panic("worker") /\ wPc' = "panicked"
       ELSE Take("worker", "agenda") /\ wPc' = "scan"
  /\ UNCHANGED <<scoreVars, callVars, ingestVars, transVars, timeVars, wFrame, cacheVars, agenda, wSamples, wText, last_detected_text,
                 wUpdates>>

\* check_agenda up to the request: nothing is sent for an empty agenda or
\* when no item is pending
W_SendStep ==
  /\ wPc = "scan"
  /\ IF agenda = <<>> \/ Pending(agenda) = <<>>
       THEN /\ EndTick
            /\ last_detected_text' = wText
       ELSE /\ wPc' = "in_flight"
            /\ UNCHANGED <<wSamples, wText, wUpdates, lockVars, last_detected_text>>
  /\ UNCHANGED <<scoreVars, callVars, ingestVars, transVars, wFrame, cacheVars, agenda>>

\* the scan with the time left out
W_Send == W_SendStep /\ UNCHANGED timeVars

\* check_agenda from the reply on: the updates, or the panic of the slice
W_Reply ==
  /\ wPc = "in_flight"
  /\ \E reply \in AgendaReplies :
       LET res == check_agenda(reply, agenda)
       IN IF res[1] = "panic"
            THEN /\ Panic("worker") /\ wPc' = "panicked"
                 /\ UNCHANGED <<wSamples, wText, wUpdates, last_detected_text>>
            ELSE IF res[2] = {}
              THEN /\ EndTick
                   /\ last_detected_text' = wText
              ELSE /\ wUpdates' = res[2]
                   /\ wPc' = "apply"
                   /\ Drop("worker", {"agenda"})
                   /\ UNCHANGED <<wSamples, wText, last_detected_text>>
  /\ UNCHANGED <<scoreVars, callVars, ingestVars, transVars, timeVars, wFrame, cacheVars, agenda>>

\* the second agenda block: lock, mark the updated items answered, unlock
W_Apply ==
  /\ wPc = "apply"
  /\ Free("agenda")
  /\ IF "agenda" \in poisoned
       THEN /\ Panic("worker") /\ wPc' = "panicked"
            /\ UNCHANGED <<agenda, wSamples, wText, wUpdates, last_detected_text>>
       ELSE /\ agenda' = ApplyUpdates(agenda, wUpdates)
            /\ last_detected_text' = wText
            /\ EndTick
  /\ UNCHANGED <<scoreVars, callVars, ingestVars, transVars, timeVars, wFrame, cacheVars>>

Worker ==
  \/ W_Wake \/ W_CheckAgenda \/ W_LockBuffer \/ W_Snapshot \/ W_LockMode
  \/ W_LockLang \/ W_Transcribe \/ W_Failed \/ W_LockTranscript \/ W_LockUpdated
  \/ W_WriteCache \/ W_Gate \/ W_LockAgenda \/ W_Send \/ W_Reply \/ W_Apply

\* ---------------------------------------------------------- command thread
\* what a command step leaves alone besides its own variables and the locks
cFrame == <<wVars, cbVars>>

\* a command is invoked: its locals start from their defaults
Invoke(op, pc) ==
  /\ cPc = "idle"
  /\ cOp' = op
  /\ cPc' = pc

\* the handler returns: guards still in scope are dropped
C_Return ==
  /\ cPc = "ret"
  /\ cPc' = "idle"
  /\ cOp' = "none" /\ cItems' = <<>> /\ cCfg' = NoConfig /\ cName' = ""
  /\ cSamples' = <<>> /\ cText' = <<>> /\ cResult' = <<"none", <<>>>>
  /\ cPath' = "none" /\ cFresh' = FALSE /\ cCached' = <<>>
  /\ Drop("cmd", Locks)
  /\ UNCHANGED <<scoreVars, callVars, ingestVars, transVars, timeVars, cFrame, bufVars, cacheVars, is_recording, cfgVars, agenda>>

\* ---- transcribe_latest
TL_Start ==
  /\ Invoke("transcribe_latest", "tl_lock_u")
  /\ UNCHANGED <<scoreVars, callVars, ingestVars, transVars, timeVars, cFrame, bufVars, lockVars, cacheVars, is_recording, cfgVars,
                 agenda, cItems, cCfg, cName, cSamples, cText, cResult, cPath,
                 cFresh, cCached>>

\* the seconds rounded up instead
as_secs_ceil(ticks) == (ticks + TicksPerSec - 1) \div TicksPerSec

\* updated.elapsed().as_secs(): whole seconds of the age
as_secs(ticks) == ticks \div TicksPerSec

\* last_updated.lock().unwrap() and the freshness test; a stale cache drops
\* the guard at the end of the block
TL_LockUpdated ==
  /\ cPc = "tl_lock_u"
  /\ Free("last_updated")
  /\ IF "last_updated" \in poisoned
       THEN /\ Panic("cmd") /\ cPc' = "panicked"
            /\ UNCHANGED <<cFresh, cCached>>
       ELSE /\ cFresh' = (last_updated_age < cache_freshness_secs * TicksPerSec)
            /\ cCached' = last_transcript
            /\ IF as_secs(last_updated_age) < cache_freshness_secs
                 THEN Take("cmd", "last_updated") /\ cPc' = "tl_lock_t"
                 ELSE UNCHANGED lockVars /\ cPc' = "tl_lock_buf"
  /\ UNCHANGED <<scoreVars, callVars, ingestVars, transVars, timeVars, cFrame, bufVars, cacheVars, is_recording, cfgVars, agenda,
                 cOp, cItems, cCfg, cName, cSamples, cText, cResult, cPath>>

\* last_transcript.lock().unwrap() with the last_updated guard held; a
\* non-empty cached text is returned
TL_LockTranscript ==
  /\ cPc = "tl_lock_t"
  /\ Free("last_transcript")
  /\ IF "last_transcript" \in poisoned
       THEN /\ Panic("cmd") /\ cPc' = "panicked"
            /\ UNCHANGED <<cResult, cPath>>
       ELSE IF last_transcript # <<>>
         THEN /\ Take("cmd", "last_transcript")
              /\ cResult' = <<"ok", last_transcript>>
              /\ cPath' = "cache"
              /\ cPc' = "ret"
         ELSE /\ Drop("cmd", {"last_updated"})
              /\ cPc' = "tl_lock_buf"
              /\ UNCHANGED <<cResult, cPath>>
  /\ UNCHANGED <<scoreVars, callVars, ingestVars, transVars, timeVars, cFrame, bufVars, cacheVars, is_recording, cfgVars, agenda,
                 cOp, cItems, cCfg, cName, cSamples, cText, cFresh, cCached>>

\* buffer.lock().map_err(..)?: a poisoned buffer is an Err, not a panic
TL_LockBuffer ==
  /\ cPc = "tl_lock_buf"
  /\ Free("buffer")
  /\ IF "buffer" \in poisoned
       THEN /\ cResult' = <<"err", <<>>>> /\ cPath' = "err" /\ cPc' = "ret"
            /\ UNCHANGED lockVars
       ELSE /\ Take("cmd", "buffer") /\ cPc' = "tl_copy"
            /\ UNCHANGED <<cResult, cPath>>
  /\ UNCHANGED <<scoreVars, callVars, ingestVars, transVars, timeVars, cFrame, bufVars, cacheVars, is_recording, cfgVars, agenda,
                 cOp, cItems, cCfg, cName, cSamples, cText, cFresh, cCached>>

\* the snapshot; an empty one returns Ok("") at once
TL_Snapshot ==
  /\ cPc = "tl_copy"
  /\ Drop("cmd", {"buffer"})
  /\ IF buffer = <<>>
       THEN /\ cResult' = <<"ok", <<>>>> /\ cPath' = "empty" /\ cPc' = "ret"
            /\ UNCHANGED cSamples
       ELSE /\ cSamples' = buffer /\ cPc' = "tl_lock_mode"
            /\ UNCHANGED <<cResult, cPath>>
  /\ UNCHANGED <<scoreVars, callVars, ingestVars, transVars, timeVars, cFrame, bufVars, cacheVars, is_recording, cfgVars, agenda,
                 cOp, cItems, cCfg, cName, cText, cFresh, cCached>>

TL_LockMode ==
  /\ cPc = "tl_lock_mode"
  /\ Free("transcription_mode")
  /\ IF "transcription_mode" \in poisoned
       THEN Panic("cmd") /\ cPc' = "panicked"
       ELSE Take("cmd", "transcription_mode") /\ cPc' = "tl_lock_lang"
  /\ UNCHANGED <<scoreVars, callVars, ingestVars, transVars, timeVars, cFrame, bufVars, cacheVars, is_recording, cfgVars, agenda,
                 cLocals>>

TL_LockLang ==
  /\ cPc = "tl_lock_lang"
  /\ Free("whisper_language")
  /\ IF "whisper_language" \in poisoned
       THEN Panic("cmd") /\ cPc' = "panicked"
       ELSE Take("cmd", "whisper_language") /\ cPc' = "tl_transcribe"
  /\ UNCHANGED <<scoreVars, callVars, ingestVars, transVars, timeVars, cFrame, bufVars, cacheVars, is_recording, cfgVars, agenda,
                 cLocals>>

\* run_transcription(..)?: the argument guards end with the statement
TL_Transcribe ==
  /\ cPc = "tl_transcribe"
  /\ Drop("cmd", {"transcription_mode", "whisper_language"})
  /\ \E r \in run_transcription(cSamples, silence_threshold, whisper_language) :
       IF r[1] = "err"
         THEN /\ cResult' = <<"err", <<>>>> /\ cPath' = "err" /\ cPc' = "ret"
              /\ UNCHANGED cText
         ELSE /\ cText' = r[2] /\ cPc' = "tl_lock_t2"
              /\ UNCHANGED <<cResult, cPath>>
  /\ UNCHANGED <<scoreVars, callVars, ingestVars, transVars, timeVars, cFrame, bufVars, cacheVars, is_recording, cfgVars, agenda,
                 cOp, cItems, cCfg, cName, cSamples, cFresh, cCached>>

\* "Update cache": last_transcript.lock().unwrap()
TL_LockTranscript2 ==
  /\ cPc = "tl_lock_t2"
  /\ Free("last_transcript")
  /\ IF "last_transcript" \in poisoned
       THEN Panic("cmd") /\ cPc' = "panicked"
       ELSE Take("cmd", "last_transcript") /\ cPc' = "tl_lock_u2"
  /\ UNCHANGED <<scoreVars, callVars, ingestVars, transVars, timeVars, cFrame, bufVars, cacheVars, is_recording, cfgVars, agenda,
                 cLocals>>

\* last_updated.lock().unwrap(), with the transcript guard held
TL_LockUpdated2 ==
  /\ cPc = "tl_lock_u2"
  /\ Free("last_updated")
  /\ IF "last_updated" \in poisoned
       THEN Panic("cmd") /\ cPc' = "panicked"
       ELSE Take("cmd", "last_updated") /\ cPc' = "tl_write"
  /\ UNCHANGED <<scoreVars, callVars, ingestVars, transVars, timeVars, cFrame, bufVars, cacheVars, is_recording, cfgVars, agenda,
                 cLocals>>

\* the text is stored, the timestamp is left as it was
TL_WriteCacheNoStamp ==
  /\ cPc = "tl_write"
  /\ last_transcript' = cText
  /\ cResult' = <<"ok", cText>>
  /\ cPath' = "run"
  /\ cPc' = "ret"
  /\ UNCHANGED <<scoreVars, callVars, ingestVars, transVars, timeVars, cFrame, bufVars, lockVars, is_recording, cfgVars, agenda,
                 cOp, cItems, cCfg, cName, cSamples, cText, cFresh, cCached,
                 last_updated_age>>

\* *t_guard = text.clone(); *u_guard = Instant::now(); Ok(text)
TL_WriteCache ==
  /\ cPc = "tl_write"
  /\ last_transcript' = cText
  /\ last_updated_age' = 0
  /\ cResult' = <<"ok", cText>>
  /\ cPath' = "run"
  /\ cPc' = "ret"
  /\ UNCHANGED <<scoreVars, callVars, ingestVars, transVars, timeVars, cFrame, bufVars, lockVars, is_recording, cfgVars, agenda,
                 cOp, cItems, cCfg, cName, cSamples, cText, cFresh, cCached>>

\* ---- update_agenda
\* the embeddings get_embedding may give the items that have none: with no
\* embedding model configured the list is left as supplied
RECURSIVE Embedded(_)
Embedded(items) ==
  IF items = <<>> THEN {<<>>}
  ELSE LET it == Head(items)
           heads == IF it.embedding # None THEN {it}
                    ELSE {it} \cup {[it EXCEPT !.embedding = Some(e)] : e \in Embeddings}
       IN {<<h>> \o rest : h \in heads, rest \in Embedded(Tail(items))}

\* the embedding loop runs before the agenda is locked
UA_Start ==
  /\ Invoke("update_agenda", "ua_install")
  /\ \E items \in AgendaInputs :
       cItems' \in (IF embedding_model THEN Embedded(items) ELSE {items})
  /\ UNCHANGED <<scoreVars, callVars, ingestVars, transVars, timeVars, cFrame, bufVars, lockVars, cacheVars, is_recording, cfgVars,
                 agenda, cCfg, cName, cSamples, cText, cResult, cPath, cFresh,
                 cCached>>

\* agenda.lock().unwrap(); *guard = items
UA_Install ==
  /\ cPc = "ua_install"
  /\ Free("agenda")
  /\ IF "agenda" \in poisoned
       THEN /\ Panic("cmd") /\ cPc' = "panicked"
            /\ UNCHANGED <<agenda, cResult>>
       ELSE /\ agenda' = cItems
            /\ cResult' = <<"ok", <<>>>>
            /\ cPc' = "ret"
            /\ UNCHANGED lockVars
  /\ UNCHANGED <<scoreVars, callVars, ingestVars, transVars, timeVars, cFrame, bufVars, cacheVars, is_recording, cfgVars, cOp, cItems,
                 cCfg, cName, cSamples, cText, cPath, cFresh, cCached>>

\* ---- update_config
UC_Start ==
  /\ Invoke("update_config", "uc_lock_mode")
  /\ cCfg' \in ConfigInputs
  /\ UNCHANGED <<scoreVars, callVars, ingestVars, transVars, timeVars, cFrame, bufVars, lockVars, cacheVars, is_recording, cfgVars,
                 agenda, cItems, cName, cSamples, cText, cResult, cPath, cFresh,
                 cCached>>

\* transcription_mode.lock().unwrap(); *mode = ..
UC_LockMode ==
  /\ cPc = "uc_lock_mode"
  /\ Free("transcription_mode")
  /\ IF "transcription_mode" \in poisoned
       THEN /\ Panic("cmd") /\ cPc' = "panicked"
            /\ UNCHANGED transcription_mode
       ELSE /\ Take("cmd", "transcription_mode")
            /\ transcription_mode' = cCfg.transcription_mode
            /\ cPc' = "uc_lock_lang"
  /\ UNCHANGED <<scoreVars, callVars, ingestVars, transVars, timeVars, cFrame, bufVars, cacheVars, is_recording, whisper_language,
                 cache_freshness_secs, detect_model, embedding_model, agenda,
                 cLocals>>

\* whisper_language.lock().unwrap() with the mode guard held, the atomic
\* stores, then both guards dropped; new_config.save() may fail afterwards
UC_LockLang ==
  /\ cPc = "uc_lock_lang"
  /\ Free("whisper_language")
  /\ IF "whisper_language" \in poisoned
       THEN /\ Panic("cmd") /\ cPc' = "panicked"
            /\ UNCHANGED <<whisper_language, cache_freshness_secs,
                           agenda_check_cooldown_secs, cResult>>
       ELSE /\ whisper_language' = cCfg.whisper_language
            /\ agenda_check_cooldown_secs' = cCfg.agenda_check_cooldown_secs
            /\ cache_freshness_secs' = cCfg.cache_freshness_secs
            /\ Drop("cmd", {"transcription_mode"})
            /\ cResult' \in {<<"ok", <<>>>>, <<"err", <<>>>>}
            /\ cPc' = "ret"
  /\ UNCHANGED <<scoreVars, callVars, ingestVars, transVars, since_scan, cFrame, bufVars, cacheVars, is_recording,
                 transcription_mode, detect_model, embedding_model, agenda, cOp,
                 cItems, cCfg, cName, cSamples, cText, cPath, cFresh, cCached>>

\* ---- set_audio_device -> AudioState::switch_device
\* the device lookup: an unknown name is "Device not found"
SD_Start ==
  /\ \E name \in Devices \cup {"nodev"} :
       /\ cName' = name
       /\ IF name \in Devices
            THEN /\ Invoke("switch_device", "sd_lock_buf")
                 /\ UNCHANGED cResult
            ELSE /\ Invoke("switch_device", "ret")
                 /\ cResult' = <<"err", <<>>>>
  /\ UNCHANGED <<scoreVars, callVars, ingestVars, transVars, timeVars, cFrame, bufVars, lockVars, cacheVars, is_recording, cfgVars,
                 agenda, cItems, cCfg, cSamples, cText, cPath, cFresh, cCached>>

\* self.buffer.lock().unwrap()
SD_LockBuffer ==
  /\ cPc = "sd_lock_buf"
  /\ Free("buffer")
  /\ IF "buffer" \in poisoned
       THEN Panic("cmd") /\ cPc' = "panicked"
       ELSE Take("cmd", "buffer") /\ cPc' = "sd_clear"
  /\ UNCHANGED <<scoreVars, callVars, ingestVars, transVars, timeVars, cFrame, bufVars, cacheVars, is_recording, cfgVars, agenda,
                 cLocals>>

\* buf_guard.clear()
SD_Clear ==
  /\ cPc = "sd_clear"
  /\ buffer' = <<>>
  /\ Drop("cmd", {"buffer"})
  /\ cPc' = "sd_create"
  /\ UNCHANGED <<scoreVars, callVars, ingestVars, transVars, timeVars, cFrame, max_samples, streams, stream_guard, device_name,
                 cacheVars, is_recording, cfgVars, agenda, cLocals>>

\* create_stream: the new stream plays from here on, or the call fails
SD_CreateStream ==
  /\ cPc = "sd_create"
  /\ \/ /\ streams' = Append(streams, cName)
        /\ cPc' = "sd_swap"
        /\ UNCHANGED cResult
     \/ /\ cResult' = <<"err", <<>>>>
        /\ cPc' = "ret"
        /\ UNCHANGED streams
  /\ UNCHANGED <<scoreVars, callVars, ingestVars, transVars, timeVars, cFrame, buffer, max_samples, stream_guard, device_name, lockVars,
                 cacheVars,
                 is_recording, cfgVars, agenda, cOp, cItems, cCfg, cName,
                 cSamples, cText, cPath, cFresh, cCached>>

\* the swap drops the previous stream; then the device name is updated
SD_Swap ==
  /\ cPc = "sd_swap"
  /\ Free("stream_guard") /\ Free("device_name")
  /\ IF "stream_guard" \in poisoned \/ "device_name" \in poisoned
       THEN /\ Panic("cmd") /\ cPc' = "panicked"
            /\ UNCHANGED <<streams, stream_guard, device_name, cResult>>
       ELSE /\ stream_guard' = Some(cName)
            /\ streams' = <<cName>>
            /\ device_name' = cName
            /\ cResult' = <<"ok", <<>>>>
            /\ cPc' = "ret"
            /\ UNCHANGED lockVars
  /\ UNCHANGED <<scoreVars, callVars, ingestVars, transVars, timeVars, cFrame, buffer, max_samples, cacheVars, is_recording, cfgVars,
                 agenda, cOp, cItems, cCfg, cName, cSamples, cText, cPath, cFresh,
                 cCached>>

\* ---- clear_audio_buffer -> AudioState::clear_buffer
CL_Start ==
  /\ Invoke("clear_audio_buffer", "cl_lock_buf")
  /\ UNCHANGED <<scoreVars, callVars, ingestVars, transVars, timeVars, cFrame, bufVars, lockVars, cacheVars, is_recording, cfgVars,
                 agenda, cItems, cCfg, cName, cSamples, cText, cResult, cPath,
                 cFresh, cCached>>

CL_LockBuffer ==
  /\ cPc = "cl_lock_buf"
  /\ Free("buffer")
  /\ IF "buffer" \in poisoned
       THEN Panic("cmd") /\ cPc' = "panicked"
       ELSE Take("cmd", "buffer") /\ cPc' = "cl_clear"
  /\ UNCHANGED <<scoreVars, callVars, ingestVars, transVars, timeVars, cFrame, bufVars, cacheVars, is_recording, cfgVars, agenda,
                 cLocals>>

CL_Clear ==
  /\ cPc = "cl_clear"
  /\ buffer' = <<>>
  /\ Drop("cmd", {"buffer"})
  /\ cPc' = "ret"
  /\ UNCHANGED <<scoreVars, callVars, ingestVars, transVars, timeVars, cFrame, max_samples, streams, stream_guard, device_name,
                 cacheVars, is_recording, cfgVars, agenda, cLocals>>

\* ---- set_recording_state: one atomic store
C_SetRecording ==
  /\ cPc = "idle"
  /\ is_recording' \in BOOLEAN
  /\ UNCHANGED <<scoreVars, callVars, ingestVars, transVars, timeVars, cFrame, bufVars, lockVars, cacheVars, cfgVars, agenda, cPc,
                 cLocals>>

transcribe_latest ==
  \/ TL_Start \/ TL_LockUpdated \/ TL_LockTranscript \/ TL_LockBuffer
  \/ TL_Snapshot \/ TL_LockMode \/ TL_LockLang \/ TL_Transcribe
  \/ TL_LockTranscript2 \/ TL_LockUpdated2 \/ TL_WriteCache

update_agenda == UA_Start \/ UA_Install

update_config == UC_Start \/ UC_LockMode \/ UC_LockLang

switch_device ==
  SD_Start \/ SD_LockBuffer \/ SD_Clear \/ SD_CreateStream \/ SD_Swap

clear_audio_buffer == CL_Start \/ CL_LockBuffer \/ CL_Clear

Callback == CB_Check \/ CB_Lock \/ CB_Write

\* the transcription core: the callback, the worker and the commands that
\* touch the transcript cache and the agenda, as time passes
Next ==
  \/ Tick \/ Callback \/ Worker
  \/ transcribe_latest \/ update_agenda
  \/ C_SetRecording \/ C_Return

Spec == Init /\ [][Next]_vars

\* ------------------------------------------------ score_agenda_items
\* scores are hundredths: 100 is 1.0
\* agenda_answered_threshold and agenda_similarity_threshold as configured
answered_threshold == 95
similarity_threshold == 35

ScoreItem(id, st, sc, ev, emb) ==
  [id |-> id, text |-> "q", status |-> st,
   answer |-> IF st = "pending" THEN None ELSE Some(<<"ans">>),
   score |-> sc, evidence |-> ev, embedding |-> emb]

\* the item lists a pass may be given
ScoreInputs ==
  {<<>>,
   <<ScoreItem("g1", "pending", 0, <<>>, None)>>,
   <<ScoreItem("g1", "answered", 100, <<"e">>, None),
     ScoreItem("g2", "pending", 0, <<>>, Some(<<1, 0>>))>>,
   <<ScoreItem("g1", "captured", 50, <<"e">>, Some(<<0, 1>>)),
     ScoreItem("g2", "answered", 0, <<>>, None)>>}

\* the values a reply may give the fields of a ScoreResponse: score is
\* any f32, here from -0.5 to 1.5
ScoreValues == {-50, 0, 50, 95, 100, 150}
EvidenceValues == {None, Some(""), Some("n")}
ScoreRecords ==
  [is_match : BOOLEAN, score : ScoreValues, new_evidence : EvidenceValues]
NoRecord == [is_match |-> FALSE, score |-> 0, new_evidence |-> None]

\* the members of the object a reply text carries
ReplyRecords(t) == IF HasObject(t) THEN ScoreRecords ELSE {NoRecord}

\* what the generate endpoint may answer to a scoring request: no
\* connection, or a response of some status whose body is not an
\* OllamaResponse, or is one with a response text
ScoreReplies ==
  {[kind |-> "unreachable", status |-> 0, text |-> <<>>, rec |-> NoRecord]}
  \cup {[kind |-> "badbody", status |-> st, text |-> <<>>, rec |-> NoRecord] :
          st \in {200, 500}}
  \cup UNION {{[kind |-> "body", status |-> st, text |-> t, rec |-> r] :
                 st \in {200, 500}, r \in ReplyRecords(t)} : t \in ReplyTexts}

\* serde_json::from_str::<ScoreResponse>: "{" members "}" is the record of
\* the reply, anything else (no match or score key, stray text) an error
ParseScore(clean, rec) ==
  IF clean = <<"{", "m", "}">> THEN Some(rec) ELSE None

Dot(a, b) == IF a = <<>> THEN 0 ELSE a[1] * b[1] + (IF Len(a) > 1 THEN a[2] * b[2] ELSE 0)

\* cosine_similarity(a, b) < t / 100, decided on the squares: the similarity
\* is 0 for vectors of different lengths or of norm 0
SimBelow(a, b, t) ==
  IF Len(a) # Len(b) \/ Dot(a, a) = 0 \/ Dot(b, b) = 0 THEN 0 < t
  ELSE IF Dot(a, b) < 0 THEN TRUE
  ELSE Dot(a, b) * Dot(a, b) * 10000 < t * t * Dot(a, a) * Dot(b, b)

\* the item after a matching record, the evidence pushed whenever the reply
\* has one
ScoredAnyEvidence(item, rec) ==
  LET ev == IF rec.new_evidence # None
              THEN Append(item.evidence, rec.new_evidence[1])
              ELSE item.evidence
      st == IF rec.score >= 100 THEN "answered"
            ELSE IF rec.score > 0 THEN "captured" ELSE item.status
      ans == IF rec.score >= 100 THEN Some(<<"Completed">>)
             ELSE IF rec.score > 0 THEN Some(<<"In Progress", rec.score>>)
             ELSE item.answer
  IN [item EXCEPT !.evidence = ev, !.score = rec.score, !.status = st,
                  !.answer = ans]

\* the score of the reply is added to the score the item has
ScoredAdds(item, rec) ==
  LET ev == IF rec.new_evidence # None /\ rec.new_evidence[1] # ""
              THEN Append(item.evidence, rec.new_evidence[1])
              ELSE item.evidence
      sc == item.score + rec.score
      st == IF sc >= 100 THEN "answered"
            ELSE IF sc > 0 THEN "captured" ELSE item.status
      ans == IF sc >= 100 THEN Some(<<"Completed">>)
             ELSE IF sc > 0 THEN Some(<<"In Progress", sc>>)
             ELSE item.answer
  IN [item EXCEPT !.evidence = ev, !.score = sc, !.status = st, !.answer = ans]

\* the item after a matching record: evidence, score, status and answer
Scored(item, rec) ==
  LET ev == IF rec.new_evidence # None /\ rec.new_evidence[1] # ""
              THEN Append(item.evidence, rec.new_evidence[1])
              ELSE item.evidence
      st == IF rec.score >= 100 THEN "answered"
            ELSE IF rec.score > 0 THEN "captured" ELSE item.status
      ans == IF rec.score >= 100 THEN Some(<<"Completed">>)
             ELSE IF rec.score > 0 THEN Some(<<"In Progress", rec.score>>)
             ELSE item.answer
  IN [item EXCEPT !.evidence = ev, !.score = rec.score, !.status = st,
                  !.answer = ans]

\* what the scan of a reply comes to, whatever the item: the slice panics,
\* or there is nothing to apply (no response, no body, no braces, no
\* ScoreResponse between them), or a ScoreResponse; the status of the
\* response is not looked at
ParseReply(reply) ==
  IF reply.kind # "body" THEN [kind |-> "none", rec |-> NoRecord]
  ELSE LET sl == BraceSlice(reply.text)
       IN IF sl[1] = "panic" THEN [kind |-> "panic", rec |-> NoRecord]
          ELSE IF sl[1] = "none" THEN [kind |-> "none", rec |-> NoRecord]
          ELSE LET scored == ParseScore(sl[2], reply.rec)
               IN IF scored = None THEN [kind |-> "none", rec |-> NoRecord]
                  ELSE [kind |-> "scored", rec |-> scored[1]]

\* the scans the replies come to
ReplyOutcomes == {ParseReply(reply) : reply \in ScoreReplies}

\* the id is pushed only when the match moved the score
ApplyOutcomeIfChanged(item, o) ==
  IF o.kind = "panic" THEN <<"panic", item, FALSE>>
  ELSE IF o.kind = "none" \/ ~o.rec.is_match THEN <<"ok", item, FALSE>>
  ELSE <<"ok", Scored(item, o.rec), o.rec.score # item.score>>

\* the item after a scan: <<"panic", item, FALSE>>, or <<"ok", item,
\* changed>>; only a ScoreResponse that reports a match is applied
ApplyOutcome(item, o) ==
  IF o.kind = "panic" THEN <<"panic", item, FALSE>>
  ELSE IF o.kind = "none" \/ ~o.rec.is_match THEN <<"ok", item, FALSE>>
  ELSE <<"ok", Scored(item, o.rec), TRUE>>

\* the body of the loop from the reply on
score_reply(item, reply) == ApplyOutcome(item, ParseReply(reply))

\* a pass is called with a list of items; the counters start at zero
InitScore ==
  /\ InitState
  /\ max_samples = 1
  /\ detect_model = TRUE
  /\ embedding_model \in BOOLEAN
  /\ sPc = "start"
  /\ sItems \in ScoreInputs
  /\ sIdx = 1
  /\ sTextEmb = None
  /\ sReply = NoReply
  /\ sUpdates = <<>>
  /\ sSent = [k \in 1..Len(sItems) |-> 0]
  /\ sPass = 1
  /\ IngestIdle
  /\ TransIdle
  /\ CallIdle

\* the embedding of the text: get_embedding(..).ok() with an embedding
\* model, None without
S_Begin ==
  /\ sPc = "start"
  /\ sTextEmb' \in (IF embedding_model
                      THEN {None} \cup {Some(e) : e \in Embeddings}
                      ELSE {None})
  /\ sPc' = "loop"
  /\ UNCHANGED <<coreVars, sItems, sIdx, sReply, sUpdates, sSent, sPass>>

\* the skip wants an answered item with a score above 1.0
AnsweredAboveFull(item) == item.status = "answered" /\ item.score > 100

\* item.status == "answered" && item.score >= answered_threshold
Answered(item) == item.status = "answered" /\ item.score >= answered_threshold

\* the gate also drops an item that has no embedding of its own
DissimilarOrMissing(item) ==
  /\ sTextEmb # None
  /\ \/ item.embedding = None
     \/ SimBelow(sTextEmb[1], item.embedding[1], similarity_threshold)

\* both embeddings are there and cosine_similarity is below the threshold
Dissimilar(item) ==
  /\ sTextEmb # None /\ item.embedding # None
  /\ SimBelow(sTextEmb[1], item.embedding[1], similarity_threshold)

\* continue: the item is answered, or its embedding is too far from the text
S_Skip ==
  /\ sPc = "loop"
  /\ sIdx <= Len(sItems)
  /\ Answered(sItems[sIdx]) \/ Dissimilar(sItems[sIdx])
  /\ sIdx' = sIdx + 1
  /\ UNCHANGED <<coreVars, sPc, sItems, sTextEmb, sReply, sUpdates, sSent, sPass>>

\* client.post(url).json(&req).send(): the request goes out and the reply,
\* whatever it is, is on its way
S_Send ==
  /\ sPc = "loop"
  /\ sIdx <= Len(sItems)
  /\ ~(Answered(sItems[sIdx]) \/ Dissimilar(sItems[sIdx]))
  /\ sReply' \in ScoreReplies
  /\ sSent' = [sSent EXCEPT ![sIdx] = @ + 1]
  /\ sPc' = "wait"
  /\ UNCHANGED <<coreVars, sItems, sIdx, sTextEmb, sUpdates, sPass>>

\* the reply is scanned, parsed and applied to the item; the slice of an
\* inverted brace range unwinds the pass
S_Receive ==
  /\ sPc = "wait"
  /\ LET res == score_reply(sItems[sIdx], sReply)
     IN IF res[1] = "panic"
          THEN /\ sPc' = "panicked"
               /\ UNCHANGED <<sItems, sIdx, sUpdates>>
          ELSE /\ sItems' = [sItems EXCEPT ![sIdx] = res[2]]
               /\ sUpdates' = IF res[3] THEN Append(sUpdates, res[2].id)
                              ELSE sUpdates
               /\ sIdx' = sIdx + 1
               /\ sPc' = "loop"
  /\ sReply' = NoReply
  /\ UNCHANGED <<coreVars, sTextEmb, sSent, sPass>>

\* the loop is over: updates is returned
S_Return ==
  /\ sPc = "loop"
  /\ sIdx > Len(sItems)
  /\ sPc' = "done"
  /\ UNCHANGED <<coreVars, sItems, sIdx, sTextEmb, sReply, sUpdates, sSent, sPass>>

score_agenda_items == S_Begin \/ S_Skip \/ S_Send \/ S_Receive \/ S_Return

SpecScore == InitScore /\ [][score_agenda_items]_vars

\* ------------------------------------------------ passes, one after another
\* the number of calls of score_agenda_items followed
MaxPasses == 2

\* one turn of the loop for an item that is not skipped, from the request
\* to the update: the pass has the items to itself (&mut), so nothing comes
\* between the request and what is done with the reply
S_Request ==
  /\ sPc = "loop"
  /\ sIdx <= Len(sItems)
  /\ ~(Answered(sItems[sIdx]) \/ Dissimilar(sItems[sIdx]))
  /\ sSent' = [sSent EXCEPT ![sIdx] = @ + 1]
  /\ \E o \in ReplyOutcomes :
       LET res == ApplyOutcome(sItems[sIdx], o)
       IN IF res[1] = "panic"
            THEN /\ sPc' = "panicked"
                 /\ UNCHANGED <<sItems, sIdx, sUpdates>>
            ELSE /\ sItems' = [sItems EXCEPT ![sIdx] = res[2]]
                 /\ sUpdates' = IF res[3] THEN Append(sUpdates, res[2].id)
                                ELSE sUpdates
                 /\ sIdx' = sIdx + 1
                 /\ UNCHANGED sPc
  /\ UNCHANGED <<coreVars, sTextEmb, sReply, sPass>>

\* the caller calls again, on the items as the last pass left them or on
\* a list that replaced them in between
S_Again ==
  /\ sPc = "done"
  /\ sPass < MaxPasses
  /\ sPass' = sPass + 1
  /\ sItems' \in {sItems} \cup ScoreInputs
  /\ sSent' = [k \in 1..Len(sItems') |-> 0]
  /\ sIdx' = 1
  /\ sUpdates' = <<>>
  /\ sTextEmb' = None
  /\ sPc' = "start"
  /\ UNCHANGED <<coreVars, sReply>>

NextPasses == S_Begin \/ S_Skip \/ S_Request \/ S_Return \/ S_Again

SpecPasses == InitScore /\ [][NextPasses]_vars

\* ------------------------------------------------- the sample buffer alone
\* the state after AudioState::new for every buffer capacity up to MaxSamples
InitBuffer ==
  /\ InitState
  /\ ScoreIdle
  /\ IngestIdle
  /\ TransIdle
  /\ CallIdle
  /\ max_samples \in 0..MaxSamples
  /\ detect_model = FALSE
  /\ embedding_model = FALSE

\* the callback against the commands that clear the buffer
NextBuffer ==
  \/ Callback \/ switch_device \/ clear_audio_buffer
  \/ C_SetRecording \/ C_Return

SpecBuffer == InitBuffer /\ [][NextBuffer]_vars

\* ------------------------------------------------ every user of the buffer
\* the state after AudioState::new with OLLAMA_MODEL set, so that the worker
\* gets as far as its snapshot
InitLocks ==
  /\ InitState
  /\ ScoreIdle
  /\ IngestIdle
  /\ TransIdle
  /\ CallIdle
  /\ max_samples = 1
  /\ detect_model = TRUE
  /\ embedding_model = FALSE

\* the callback, the worker and the commands of src/ that lock the buffer;
\* update_agenda gives the worker an agenda to scan
NextLocks ==
  \/ Callback \/ Worker
  \/ transcribe_latest \/ update_agenda
  \/ switch_device
  \/ C_Return

SpecLocks == InitLocks /\ [][NextLocks]_vars

\* ------------------------------------------------- write_input_data, called
\* the number of samples handed to write_input_data over the calls followed
MaxIngested == 5

\* the input sample rates of the devices
Rates == {RateOf(d) : d \in Devices}

\* the last n elements of s, all of s when it has no more than n
LastN(s, n) == IF Len(s) <= n THEN s ELSE SubSeq(s, Len(s) - n + 1, Len(s))

\* the elements of s at the indices 0, 2, 4, ...
EveryOther(s) == [k \in 1..((Len(s) + 1) \div 2) |-> s[2 * k - 1]]

\* a stream of some rate starts on an empty buffer of some capacity, with
\* the first slice of input at hand
InitIngest ==
  /\ InitState
  /\ ScoreIdle
  /\ max_samples \in 0..MaxSamples
  /\ detect_model = FALSE
  /\ embedding_model = FALSE
  /\ iPc = "call"
  /\ iInput \in SeqsUpTo(Samples, MaxIngested)
  /\ iRate \in Rates
  /\ iBefore = <<>>
  /\ iAll = <<>>
  /\ TransIdle
  /\ CallIdle

\* write_input_data(input, buffer, input_rate, max_samples) runs; iBefore
\* and iAll remember the buffer before the call and the input so far
I_Write ==
  /\ iPc = "call"
  /\ iBefore' = buffer
  /\ iAll' = iAll \o iInput
  /\ buffer' = write_input_data(iInput, buffer, iRate, max_samples)
  /\ iPc' = "done"
  /\ UNCHANGED <<scoreVars, callVars, timeVars, transVars, max_samples, streams, stream_guard,
                 device_name, lockVars, cacheVars, is_recording, cfgVars, agenda,
                 wVars, cVars, cbVars, iInput, iRate>>

\* the stream delivers its next slice
I_Call ==
  /\ iPc = "done"
  /\ iInput' \in SeqsUpTo(Samples, MaxIngested - Len(iAll))
  /\ iPc' = "call"
  /\ UNCHANGED <<scoreVars, callVars, timeVars, transVars, bufVars, lockVars, cacheVars,
                 is_recording, cfgVars, agenda, wVars, cVars, cbVars, iRate, iBefore,
                 iAll>>

NextIngest == I_Write \/ I_Call

SpecIngest == InitIngest /\ [][NextIngest]_vars

\* ------------------------------------------------ run_transcription, called
\* the silence thresholds a call may be given
Thresholds == {0, 1, 2, 3}

\* run_transcription is about to be called on some snapshot
InitTranscribe ==
  /\ InitState
  /\ ScoreIdle
  /\ max_samples = MaxSamples
  /\ detect_model = FALSE
  /\ embedding_model = FALSE
  /\ iPc = "off" /\ iInput = <<>> /\ iRate = 0 /\ iBefore = <<>> /\ iAll = <<>>
  /\ CallIdle
  /\ tPc = "call"
  /\ tSamples \in SeqsUpTo(Samples \cup {-2}, MaxSamples)
  /\ tThreshold \in Thresholds
  /\ tResult = <<"none", <<>>>>
  /\ tInvoked = FALSE

\* the call: its result, and whether it got as far as the speech model
T_Run ==
  /\ tPc = "call"
  /\ tResult' \in run_transcription(tSamples, tThreshold, whisper_language)
  /\ tInvoked' = ModelInvoked(tSamples, tThreshold)
  /\ tPc' = "done"
  /\ UNCHANGED <<scoreVars, callVars, timeVars, ingestVars, bufVars, lockVars, cacheVars,
                 is_recording, cfgVars, agenda, wVars, cVars, cbVars, tSamples,
                 tThreshold>>

\* the next call, on another snapshot with another threshold
T_Call ==
  /\ tPc = "done"
  /\ tSamples' \in SeqsUpTo(Samples \cup {-2}, MaxSamples)
  /\ tThreshold' \in Thresholds
  /\ tPc' = "call"
  /\ UNCHANGED <<scoreVars, callVars, timeVars, ingestVars, bufVars, lockVars, cacheVars,
                 is_recording, cfgVars, agenda, wVars, cVars, cbVars, tResult,
                 tInvoked>>

NextTranscribe == T_Run \/ T_Call

SpecTranscribe == InitTranscribe /\ [][NextTranscribe]_vars

\* ------------------------------------- the worker under changing settings
\* the worker and the audio callback against the commands that change what
\* a tick works on: the agenda, the language and the recording flag
NextWorker ==
  \/ Callback \/ Worker
  \/ update_agenda \/ update_config
  \/ C_SetRecording \/ C_Return

SpecWorker == Init /\ [][NextWorker]_vars

\* ------------------------------------------- the agenda with embeddings
\* the state after AudioState::new when OLLAMA_EMBEDDING_MODEL is set
InitAgenda ==
  /\ InitState
  /\ ScoreIdle
  /\ IngestIdle
  /\ TransIdle
  /\ CallIdle
  /\ max_samples = 1
  /\ detect_model \in BOOLEAN
  /\ embedding_model = TRUE

\* bulk replaces against the worker that updates the installed items
NextAgenda ==
  \/ Callback \/ Worker
  \/ update_agenda
  \/ C_SetRecording \/ C_Return

SpecAgenda == InitAgenda /\ [][NextAgenda]_vars

\* ------------------------------------------------ cosine_similarity, called
\* the longest vector handed to cosine_similarity
MaxDim == 2

\* the whole numbers the components of a vector are taken from
Components == {0, 1, 2}

\* the vectors of f32 a call may be given
Vectors == {[k \in 1..Len(v) |-> f32_from(v[k])] : v \in SeqsUpTo(Components, MaxDim)}

\* a.iter().zip(b).map(|(x, y)| x * y).sum(): zip stops at the shorter
RECURSIVE dot_product(_, _)
dot_product(a, b) ==
  IF a = <<>> \/ b = <<>> THEN f32_zero
  ELSE f32_add(dot_product(SubSeq(a, 1, Len(a) - 1), SubSeq(b, 1, Len(a) - 1)),
               f32_mul(a[Len(a)], b[Len(a)]))

\* a.iter().map(|x| x * x).sum::<f32>().sqrt()
norm(a) == f32_sqrt(dot_product(a, a))

\* the check of the lengths left out: the product runs over the shorter vector
cosine_unchecked(a, b) ==
  LET m == IF Len(a) < Len(b) THEN Len(a) ELSE Len(b)
      dot == dot_product(SubSeq(a, 1, m), SubSeq(b, 1, m))
  IN IF norm(a).m = 0 \/ norm(b).m = 0 THEN f32_zero
     ELSE f32_div(dot, f32_mul(norm(a), norm(b)))

cosine_similarity(a, b) ==
  IF Len(a) # Len(b) THEN f32_zero
  ELSE IF norm(a).m = 0 \/ norm(b).m = 0 THEN f32_zero
  ELSE f32_div(dot_product(a, b), f32_mul(norm(a), norm(b)))

\* what a followed call leaves alone
callFrame == <<scoreVars, bufVars, lockVars, cacheVars, is_recording, cfgVars,
               timeVars, ingestVars, transVars, agenda, wVars, cVars, cbVars>>

\* cosine_similarity is about to be called on two vectors
InitCosine ==
  /\ InitState
  /\ ScoreIdle
  /\ IngestIdle
  /\ TransIdle
  /\ max_samples = 1
  /\ detect_model = FALSE
  /\ embedding_model = TRUE
  /\ callPc = "call"
  /\ callArgs \in Vectors \X Vectors
  /\ callRet = <<>>

Cos_Run ==
  /\ callPc = "call"
  /\ callRet' = cosine_similarity(callArgs[1], callArgs[2])
  /\ callPc' = "done"
  /\ UNCHANGED <<callFrame, callArgs>>

\* the next call
Cos_Call ==
  /\ callPc = "done"
  /\ callArgs' \in Vectors \X Vectors
  /\ callRet' = <<>>
  /\ callPc' = "call"
  /\ UNCHANGED callFrame

NextCosine == Cos_Run \/ Cos_Call

SpecCosine == InitCosine /\ [][NextCosine]_vars

\* --------------------------------------------------- preprocess_audio, called
\* the samples a signal is made of: whole numbers, and 2^-21, which lies
\* between 0 and 1e-6
Levels == {f32_zero, f32_from(1), f32_from(-2), f32(1, 2^23, -44)}

\* one of the two preprocess_audio is about to be called on a signal
InitPreprocess ==
  /\ InitState
  /\ ScoreIdle
  /\ IngestIdle
  /\ TransIdle
  /\ max_samples = MaxSamples
  /\ detect_model = FALSE
  /\ embedding_model = FALSE
  /\ callPc = "call"
  /\ callArgs \in {"transcription", "audio"} \X SeqsUpTo(Levels, MaxSamples)
  /\ callRet = <<>>

\* the samples as the call leaves them
Pre_Run ==
  /\ callPc = "call"
  /\ callRet' = IF callArgs[1] = "audio"
                  THEN audio_preprocess_audio(callArgs[2])
                  ELSE preprocess_audio(callArgs[2])
  /\ callPc' = "done"
  /\ UNCHANGED <<callFrame, callArgs>>

\* the next call
Pre_Call ==
  /\ callPc = "done"
  /\ callArgs' \in {"transcription", "audio"} \X SeqsUpTo(Levels, MaxSamples)
  /\ callRet' = <<>>
  /\ callPc' = "call"
  /\ UNCHANGED callFrame

NextPreprocess == Pre_Run \/ Pre_Call

SpecPreprocess == InitPreprocess /\ [][NextPreprocess]_vars

\* ------------------------------------------------- one reply, scanned
\* the longest response text handed to the scan of a reply
MaxScanLen == 4

\* the replies with a response text of up to MaxScanLen tokens
ScanReplies ==
  UNION {{[kind |-> "body", status |-> 200, text |-> t, rec |-> r] :
            r \in ReplyRecords(t)} : t \in SeqsUpTo(Tokens, MaxScanLen)}

\* the items the reply may be for: pending, or captured with a score and
\* evidence
ScanItems ==
  {ScoreItem("g1", "pending", 0, <<>>, None),
   ScoreItem("g1", "captured", 50, <<"e">>, None)}

\* the body of the loop of score_agenda_items is about to run on a reply
InitScan ==
  /\ InitState
  /\ ScoreIdle
  /\ IngestIdle
  /\ TransIdle
  /\ max_samples = 1
  /\ detect_model = TRUE
  /\ embedding_model = FALSE
  /\ callPc = "call"
  /\ callArgs \in ScanItems \X ScanReplies
  /\ callRet = <<>>

\* the item after the reply, and whether its id is pushed
Scan_Run ==
  /\ callPc = "call"
  /\ callRet' = score_reply(callArgs[1], callArgs[2])
  /\ callPc' = "done"
  /\ UNCHANGED <<callFrame, callArgs>>

NextScan == Scan_Run

SpecScan == InitScan /\ [][NextScan]_vars

\* ------------------------------------------------ the worker against time
\* std::thread::sleep(Duration::from_secs(10))
SLEEP_SECS == 10

\* since_scan is the time in seconds since the worker's last request to the
\* scoring model, -1 before the first; it is followed up to MaxSince
MaxSince == 30

Elapse(t, d) ==
  IF t < 0 THEN t ELSE IF t + d > MaxSince THEN MaxSince ELSE t + d

\* the worker wakes up SLEEP_SECS after it went to sleep; the steps of a
\* tick take no time to speak of
W_WakeTimed ==
  /\ W_WakeStep
  /\ since_scan' = Elapse(since_scan, SLEEP_SECS)
  /\ UNCHANGED agenda_check_cooldown_secs

\* the request of check_agenda goes out: the time since the last one starts
\* again; the cooldown is not read
W_SendTimed ==
  /\ W_SendStep
  /\ since_scan' = IF wPc' = "in_flight" THEN 0 ELSE since_scan
  /\ UNCHANGED agenda_check_cooldown_secs

TimedWorker ==
  \/ W_WakeTimed \/ W_CheckAgenda \/ W_LockBuffer \/ W_Snapshot \/ W_LockMode
  \/ W_LockLang \/ W_Transcribe \/ W_Failed \/ W_LockTranscript
  \/ W_LockUpdated \/ W_WriteCache \/ W_Gate \/ W_LockAgenda \/ W_SendTimed
  \/ W_Reply \/ W_Apply

NextCooldown ==
  \/ Callback \/ TimedWorker
  \/ update_agenda \/ update_config \/ C_Return

SpecCooldown == Init /\ [][NextCooldown]_vars

\* ------------------------------------------------------------ who waits
\* the mutex each thread is about to lock at its position, "none" otherwise
wWants ==
  CASE wPc \in {"chk_agenda", "lock_agenda", "apply"} -> "agenda"
    [] wPc = "snapshot" -> "buffer"
    [] wPc = "lock_mode" -> "transcription_mode"
    [] wPc = "lock_lang" -> "whisper_language"
    [] wPc = "lock_t" -> "last_transcript"
    [] wPc = "lock_u" -> "last_updated"
    [] OTHER -> "none"

cWants ==
  CASE cPc \in {"tl_lock_u", "tl_lock_u2"} -> "last_updated"
    [] cPc \in {"tl_lock_t", "tl_lock_t2"} -> "last_transcript"
    [] cPc \in {"tl_lock_buf", "sd_lock_buf", "cl_lock_buf"} -> "buffer"
    [] cPc \in {"tl_lock_mode", "uc_lock_mode"} -> "transcription_mode"
    [] cPc \in {"tl_lock_lang", "uc_lock_lang"} -> "whisper_language"
    [] cPc = "ua_install" -> "agenda"
    [] cPc = "sd_swap" -> "stream_guard"
    [] OTHER -> "none"

cbWants == IF cbPc = "want" THEN "buffer" ELSE "none"

Wants(th) ==
  CASE th = "worker" -> wWants [] th = "cmd" -> cWants [] OTHER -> cbWants

\* th cannot take its next step until by releases a guard
Blocked(th, by) == Wants(th) # "none" /\ lockOwner[Wants(th)] = by

\* the shared resource a mutex protects: the transcript cache is the text
\* together with its timestamp
ResourceOf(l) ==
  CASE l = "buffer" -> "sample buffer"
    [] l \in {"last_transcript", "last_updated"} -> "transcript cache"
    [] l = "agenda" -> "agenda set"
    [] OTHER -> "none"

\* the shared resources th holds a lock of, or is about to lock
Engaged(th) ==
  {ResourceOf(l) : l \in (Held(th) \cup {Wants(th)}) \ {"none"}} \ {"none"}

\* -------------------------------------------------------------- properties

\* C1: after any sequence of ingests (any input length, any source rate),
\* buffer clears and device switches from an empty buffer, the sample buffer
\* is never longer than max_samples.
C1_BufferBounded == Len(buffer) <= max_samples

\* the largest buffer is full again after a switch to another device
C1_Witness ==
  /\ max_samples = MaxSamples
  /\ Len(buffer) = MaxSamples
  /\ device_name # "mic"
  /\ cbPc = "idle"

\* C2: no interleaving of the worker, the command handlers and the device
\* callback reaches a state where threads wait for locks held by each other.
C2_NoWaitCycle ==
  \A a, b \in Threads : a # b => ~(Blocked(a, b) /\ Blocked(b, a))

\* C3: no thread holds the lock of one shared resource (sample buffer,
\* transcript cache, agenda set) while acquiring or holding the lock of
\* another.
C3_OneResourceAtATime ==
  \A th \in Threads : Held(th) # {} => Cardinality(Engaged(th)) <= 1

\* C4: transcribe_latest never has to wait for an agenda request of the
\* worker to finish: while the request is in flight the handler is not
\* blocked on a lock the worker holds.
C4_FetchNotBehindRequest ==
  ~(wPc = "in_flight" /\ cOp = "transcribe_latest" /\ Blocked("cmd", "worker"))

\* positions of the worker between a successful transcription and the
\* overwrite of the cache, and after the overwrite within the same tick
BeforeWrite == {"lock_t", "lock_u", "write"}
AfterWrite == {"written", "lock_agenda", "scan", "in_flight", "apply"}

\* the handler has just decided how transcribe_latest returns
TL_Returns == cOp = "transcribe_latest" /\ cPc # "ret" /\ cPc' = "ret"

\* C5: a fetch returns the cached transcript, without running the model and
\* leaving the cache text and timestamp unchanged, exactly when the age of
\* the cache at the freshness test is below the window and the cached text
\* is non-empty; a text at or beyond the window is never returned from the
\* cache.  (cFresh and cCached record the age test on the tick clock and the
\* cached text as they are when the handler tests the age.)
C5_CacheServedIffFresh ==
  [][TL_Returns =>
       /\ (cPath' = "cache") <=> (cFresh /\ cCached # <<>>)
       /\ cPath' = "cache" =>
            /\ cResult' = <<"ok", cCached>>
            /\ cText' = <<>> /\ cSamples' = <<>>
            /\ last_transcript' = cCached
            /\ UNCHANGED cacheVars]_vars

\* a fetch served from a cache that is one tick old
C5_Witness ==
  /\ cPc = "ret" /\ cPath = "cache" /\ cFresh
  /\ cResult = <<"ok", <<"a", "b">>>>
  /\ last_updated_age > 0

\* C6 as stated: a fetch not served from the cache that returns Ok has
\* overwritten the cache text with the returned text and reset the
\* timestamp, for every buffer content including the empty buffer.
C6_Original ==
  [][(TL_Returns /\ cPath' # "cache" /\ cResult'[1] = "ok") =>
       (last_transcript' = cResult'[2] /\ last_updated_age' = 0)]_vars

\* C6 amended: a fetch not served from the cache snapshots the buffer; with
\* a non-empty snapshot it runs transcription on it and, on success, returns
\* the text after overwriting the cache text with it and resetting the
\* timestamp (a failure returns the error and leaves the cache alone); with
\* an empty snapshot it returns the empty text without transcribing and
\* leaves the cache unchanged.
C6_FetchOverwritesCache ==
  [][(TL_Returns /\ cPath' # "cache") =>
       /\ cPath' = "run" =>
            /\ cSamples # <<>>
            /\ <<"ok", cResult'[2]>> \in run_transcription(cSamples, silence_threshold, whisper_language)
            /\ cResult'[1] = "ok"
            /\ last_transcript' = cResult'[2]
            /\ last_updated_age' = 0
       /\ cPath' = "empty" =>
            /\ buffer = <<>>
            /\ cResult' = <<"ok", <<>>>>
            /\ UNCHANGED cacheVars
       /\ cPath' = "err" => (cResult'[1] = "err" /\ UNCHANGED cacheVars)
       /\ cPath' \in {"run", "empty", "err"}]_vars

\* a fetch has transcribed a silent snapshot: the cache holds the empty text
\* it returns, stamped now
C6_Witness ==
  /\ cPc = "ret" /\ cPath = "run" /\ cSamples = <<0>>
  /\ cResult = <<"ok", <<>>>> /\ last_transcript = <<>>
  /\ last_updated_age = 0

\* C7 as stated: every tick that starts with recording enabled and ends
\* without a transcription failure has overwritten the cache, whatever the
\* agenda holds.
C7_Original ==
  [][(wPc \notin {"sleep", "failed"} /\ wPc' = "sleep") =>
       wPc \in AfterWrite]_vars

\* C7 amended: a tick in which transcription runs and succeeds overwrites
\* the cache text and timestamp before it goes on, also when the text is
\* empty or unchanged; a tick skips transcription, leaving the cache as it
\* is, when no scoring model is configured, the agenda is empty or the
\* snapshot is empty.  No other step of the worker touches the cache.
C7_TickOverwritesCache ==
  [][(wPc' # wPc) =>
       /\ (wPc \in BeforeWrite /\ wPc' \notin BeforeWrite \cup {"panicked"}) =>
            /\ wPc = "write" /\ wPc' = "written"
            /\ last_transcript' = wText
            /\ last_updated_age' = 0
       /\ wPc' \in AfterWrite => wPc \in AfterWrite \cup {"write"}
       /\ wPc # "write" => UNCHANGED cacheVars
       /\ (wPc = "failed" /\ wPc' = "sleep") => UNCHANGED cacheVars
       /\ (wPc = "chk_agenda" /\ wPc' = "sleep") => agenda = <<>>
       /\ (wPc = "copy" /\ wPc' = "sleep") => buffer = <<>>]_vars

\* the cache has just been overwritten with a text equal to the one last
\* scanned
C7_Witness ==
  /\ wPc = "written" /\ last_updated_age = 0
  /\ wText = last_detected_text /\ wText # <<>>
  /\ last_transcript = wText

\* C8: within a tick the cache is updated before check_agenda is invoked,
\* and the text handed to it is the cache text while the request runs.
C8_ScorerSeesCachedText ==
  wPc \in {"scan", "in_flight"} => last_transcript = wText

\* a request is in flight while the handler is in the middle of a fetch
C8_Witness ==
  /\ wPc = "in_flight" /\ wText = <<"a", "b">>
  /\ cOp = "transcribe_latest" /\ cPc = "tl_lock_t2" /\ cText # wText

\* C9: whatever the backend replies, check_agenda returns normally: the
\* worker keeps running and no lock is left poisoned.
C9_ReplyNeverFatal ==
  [][wPc = "in_flight" => (wPc' # "panicked" /\ poisoned' = poisoned)]_vars

\* the reply on its way answers with a status that is not a success, or
\* holds no object that parses into a match/score/evidence record
FailedReply ==
  \/ sReply.kind # "body"
  \/ sReply.status # 200
  \/ ~HasObject(sReply.text)

\* C10: in a pass, a reply that cannot be parsed into a record or whose
\* HTTP status is not a success leaves the item as it was and out of the
\* change set, after at most one request for it, and the pass goes on to
\* the remaining items.
C10_FailedReplyLeavesItem ==
  [][(sPc = "wait" /\ FailedReply) =>
       /\ sItems' = sItems
       /\ sUpdates' = sUpdates
       /\ sSent[sIdx] <= 1
       /\ sPc' = "loop" /\ sIdx' = sIdx + 1]_vars

\* C11: when transcription returns an error on a worker tick the worker
\* does not terminate: the tick ends there, with the cache text and
\* timestamp, the agenda and the last scanned text as they were, no lock
\* left held or poisoned and no request sent, and the worker is back at the
\* sleep from which the next tick transcribes again.
C11_ErrorEndsTickOnly ==
  [][/\ (wPc = "transcribe" /\ wPc' # wPc) =>
          /\ wPc' \in {"failed", "lock_t"}
          /\ wPc' = "failed" => wText' = wText
     /\ (wPc = "failed" /\ wPc' # wPc) =>
          /\ wPc' = "sleep"
          /\ UNCHANGED <<cacheVars, agenda, last_detected_text, poisoned>>
          /\ \A l \in Locks : lockOwner'[l] # "worker"]_vars

\* transcription has just failed on a tick that had a cached text to lose
\* and a pending item to scan for
C11_Witness ==
  /\ wPc = "failed" /\ last_transcript # <<>>
  /\ Pending(agenda) # <<>> /\ last_detected_text # <<>>

\* C12: in every reachable state of the agenda, after any sequence of bulk
\* replaces and scoring ticks, an item has status answered if and only if
\* its score is at least 1.0.
C12_AnsweredIffFullScore ==
  \A k \in 1..Len(agenda) :
    (agenda[k].status = "answered") <=> (agenda[k].score >= 100)

\* C13: an item whose score is at least answered_threshold is excluded from
\* scoring whatever its status reads: no pass sends a request for it or
\* changes it.
C13_ThresholdExcludes ==
  [][\A k \in 1..Len(sItems) :
       (sPc # "done" /\ sItems[k].score >= answered_threshold) =>
         /\ sSent'[k] = sSent[k]
         /\ sItems'[k] = sItems[k]]_vars

\* C14: scoring never demotes a status: across any sequence of passes an
\* item whose status is answered keeps that status, also when a later pass
\* gives it a lower score.
C14_AnsweredStays ==
  [][\A k \in 1..Len(sItems) :
       (sPc # "done" /\ sItems[k].status = "answered") =>
         sItems'[k].status = "answered"]_vars

\* C15: once an item has status answered and a score of at least
\* answered_threshold, no step of a pass sends a request for it, changes
\* its score, status, answer or evidence, or puts its id in the change set;
\* only a list that replaces the items between two passes changes it.
C15_AnsweredIsFrozen ==
  [][\A k \in 1..Len(sItems) :
       (/\ sPc # "done"
        /\ sItems[k].status = "answered"
        /\ sItems[k].score >= answered_threshold) =>
         /\ sItems'[k] = sItems[k]
         /\ sSent'[k] = sSent[k]
         /\ \/ sUpdates' = sUpdates
            \/ /\ sIdx # k
               /\ sUpdates' = Append(sUpdates, sItems[sIdx].id)
               /\ sItems[sIdx].id # sItems[k].id]_vars

\* an item that the first pass completed has been passed over by the
\* second
C15_Witness ==
  /\ sPass = 2 /\ sPc = "done" /\ Len(sItems) = 1
  /\ sItems[1].answer = Some(<<"Completed">>)
  /\ sItems[1].status = "answered" /\ sItems[1].score = 100
  /\ sSent[1] = 0 /\ sUpdates = <<>>

\* C16: every item's score is within [0, 1] in every reachable state,
\* whatever score the model's reply carries.
C16_ScoreInRange ==
  \A k \in 1..Len(sItems) : sItems[k].score >= 0 /\ sItems[k].score <= 100

\* C17: within a pass the evidence lists are append-only: a step leaves an
\* item's list as it is, or it is the step that handles the one reply for
\* that item in this pass, the reply parses to a record that reports a
\* match and carries a non-empty evidence string, and the list becomes the
\* old list with that string appended.
C17_EvidenceAppendOnly ==
  [][/\ Len(sItems') = Len(sItems)
     /\ \A k \in 1..Len(sItems) :
          \/ sItems'[k].evidence = sItems[k].evidence
          \/ /\ sPc = "wait" /\ k = sIdx /\ sIdx' = sIdx + 1
             /\ sSent[k] = 1
             /\ ParseReply(sReply).kind = "scored"
             /\ ParseReply(sReply).rec.is_match
             /\ ParseReply(sReply).rec.new_evidence \notin {None, Some("")}
             /\ sItems'[k].evidence =
                  Append(sItems[k].evidence,
                         ParseReply(sReply).rec.new_evidence[1])]_vars

\* a reply's evidence has been appended to a list that already had an entry
C17_Witness ==
  /\ sPc = "loop" /\ sIdx = 2
  /\ sItems[1].evidence = <<"e", "n">>

\* C18: the remembered last-submitted text changes only on ticks in which
\* the transcript was submitted to the scoring model, that is in a step
\* that follows the request of the tick.
C18_RememberedOnlyIfSubmitted ==
  [][last_detected_text' # last_detected_text =>
       wPc \in {"in_flight", "apply"}]_vars

\* C19: a tick whose transcript has fewer characters than the configured
\* minimum ends at the gates: no request is sent, and the agenda and the
\* remembered last-submitted text stay as they are.
C19_ShortTextNotScanned ==
  [][(wPc = "written" /\ wPc' # wPc /\ CharLen(wText) < min_chars) =>
       /\ wPc' = "sleep"
       /\ UNCHANGED <<agenda, last_detected_text>>]_vars

\* C20: two requests of the worker to the scoring model are separated by
\* more than the configured cooldown, as it is configured at the time of
\* the second.
C20_CooldownBetweenScans ==
  [][(wPc = "scan" /\ wPc' = "in_flight" /\ since_scan >= 0) =>
       since_scan > agenda_check_cooldown_secs]_vars

\* C21: a call of write_input_data at the canonical rate leaves the buffer
\* equal to the last max_samples elements of its contents before the call
\* followed by the input: the oldest samples go first, the newest stay in
\* order.
C21_KeepsNewest ==
  (iPc = "done" /\ iRate = SAMPLE_RATE) =>
    buffer = LastN(iBefore \o iInput, max_samples)

\* a slice longer than the capacity has gone into a buffer that was not
\* empty, and samples of both values were evicted and kept
C21_Witness ==
  /\ iPc = "done" /\ iRate = SAMPLE_RATE /\ max_samples = 3
  /\ iBefore = <<0>> /\ iInput = <<2, 0, 2, 2>> /\ buffer = <<0, 2, 2>>

\* C22: at the canonical rate every input sample is appended once, in input
\* order, after what is there, however the input is split into calls: the
\* buffer is the input of all calls so far, from its last max_samples
\* samples on, and all of it while it fits.
C22_Fifo ==
  (iPc = "done" /\ iRate = SAMPLE_RATE) =>
    /\ buffer = LastN(iAll, max_samples)
    /\ Len(iAll) <= max_samples => buffer = iAll

\* three samples have come in two calls and all of them are in the buffer
C22_Witness ==
  /\ iPc = "done" /\ iRate = SAMPLE_RATE /\ max_samples = 3
  /\ iBefore = <<2>> /\ iInput = <<0, 2>> /\ buffer = <<2, 0, 2>>
  /\ iAll = buffer

\* C23: a call of write_input_data with n samples at twice the canonical
\* rate appends the samples at the input indices 0, 2, 4, ..., that is
\* ceil(n/2) of them, in order, and no others.
C23_EveryOtherSample ==
  (iPc = "done" /\ iRate = 2 * SAMPLE_RATE) =>
    /\ buffer = LastN(iBefore \o EveryOther(iInput), max_samples)
    /\ Len(EveryOther(iInput)) * 2 \in {Len(iInput), Len(iInput) + 1}

\* five samples at the double rate have left the first, third and fifth
C23_Witness ==
  /\ iPc = "done" /\ iRate = 32000 /\ max_samples = 3
  /\ iBefore = <<>> /\ iInput = <<2, 0, 0, 2, 2>> /\ buffer = <<2, 0, 2>>

\* C24: run_transcription returns Ok with an empty text, without invoking
\* the speech model, whenever the snapshot is empty or the rms of the
\* snapshot as it came (not preprocessed) is below the threshold; the model
\* is invoked only when that rms is at or above the threshold.
C24_SilenceShortCircuits ==
  tPc = "done" =>
    /\ (tSamples = <<>> \/
          SumSq(tSamples) < tThreshold * tThreshold * Len(tSamples)) =>
         tResult = <<"ok", <<>>>> /\ ~tInvoked
    /\ tInvoked =>
         /\ tSamples # <<>>
         /\ SumSq(tSamples) >= tThreshold * tThreshold * Len(tSamples)

\* a loud constant snapshot, flat once preprocessed, went to the model
C24_Witness ==
  /\ tPc = "done" /\ tSamples = <<2, 2>> /\ tThreshold = 2
  /\ tInvoked /\ tResult = <<"ok", <<"a", "b">>>>
  /\ f32_peak(preprocess_audio(ToF32(tSamples))) = f32_zero

\* C25: worker ticks, on-demand fetches and preprocessing never change the
\* sample buffer: a step that changes it is the write of the device
\* callback, the clear of clear_audio_buffer or the clear of a device
\* switch, and what is transcribed is a copy that stays what it was when
\* the buffer moves on.
C25_SnapshotLeavesBuffer ==
  [][/\ buffer' # buffer =>
          \/ cbPc = "locked" /\ cbPc' = "idle"
          \/ cPc \in {"cl_clear", "sd_clear"} /\ cPc' # cPc
     /\ (wPc' # wPc \/ cPc' # cPc) =>
          \/ buffer' = buffer
          \/ cPc \in {"cl_clear", "sd_clear"}
     /\ (wPc = "copy" /\ wPc' = "lock_mode") => wSamples' = buffer
     /\ (cPc = "tl_copy" /\ cPc' = "tl_lock_mode") => cSamples' = buffer]_vars

\* the worker has transcribed a copy while the buffer still holds the
\* samples, and a fetch has taken its own copy of them
C25_Witness ==
  /\ wPc = "lock_t" /\ wText # <<>> /\ wSamples = buffer /\ buffer # <<>>
  /\ cPc = "tl_lock_mode" /\ cSamples = buffer

\* C26: once a device switch has cleared the buffer, no callback of a
\* stream other than the new device's appends a sample, and when the
\* switch returns successfully the active stream is the new device's and
\* the only one alive.
C26_NoOldSamplesAfterClear ==
  [][/\ ( /\ cOp = "switch_device" /\ cPc \in {"sd_create", "sd_swap"}
          /\ cbPc = "locked" /\ cbPc' = "idle" /\ cbStream # cName )
        => buffer' = buffer
     /\ (cPc = "sd_swap" /\ cPc' = "ret") =>
          stream_guard' = Some(cName) /\ streams' = <<cName>>]_vars

\* C27: a bulk agenda replace always succeeds: the step that ends
\* update_agenda returns Ok and leaves the agenda equal to the list the
\* embedding loop produced, which is one of the supplied lists in every
\* field but the embedding; the embeddings are there before the agenda
\* lock is taken.
C27_ReplaceAlwaysSucceeds ==
  [][/\ (cPc = "idle" /\ cOp' = "update_agenda") =>
          lockOwner'["agenda"] # "cmd"
     /\ (cOp = "update_agenda" /\ cPc = "ua_install" /\ cPc' # cPc) =>
          /\ cPc' = "ret" /\ cResult' = <<"ok", <<>>>>
          /\ agenda' = cItems
          /\ [k \in 1..Len(agenda') |-> [agenda'[k] EXCEPT !.embedding = None]]
               \in AgendaInputs]_vars

\* C28: an embedding, once an item has it, stays what it is for as long as
\* the item's id stays in the agenda: no bulk replace and no scoring pass
\* computes it again, changes it or drops it.
C28_EmbeddingComputedOnce ==
  [][\A i \in 1..Len(agenda), j \in 1..Len(agenda') :
       (agenda[i].id = agenda'[j].id /\ agenda[i].embedding # None) =>
         agenda'[j].embedding = agenda[i].embedding]_vars

\* C29: in a scoring pass the embedding of the transcript is obtained in
\* the one step that opens the pass and never again, and an item that is
\* not skipped as answered is passed over without a request and unchanged
\* exactly when the transcript's embedding and its own are both there and
\* their cosine similarity is below the threshold; otherwise the request
\* for it goes out.
C29_GateNeedsBothEmbeddings ==
  [][/\ sTextEmb' # sTextEmb => (sPc = "start" /\ sPc' = "loop")
     /\ ( /\ sPc = "loop" /\ sIdx <= Len(sItems)
          /\ ~(sItems[sIdx].status = "answered"
               /\ sItems[sIdx].score >= answered_threshold) )
        => LET item == sItems[sIdx]
               below == /\ sTextEmb # None /\ item.embedding # None
                        /\ SimBelow(sTextEmb[1], item.embedding[1],
                                    similarity_threshold)
           IN IF below
                THEN /\ sPc' = "loop" /\ sIdx' = sIdx + 1
                     /\ sItems' = sItems /\ sSent' = sSent
                     /\ sUpdates' = sUpdates
                ELSE sPc' = "wait" /\ sSent'[sIdx] = sSent[sIdx] + 1]_vars

\* a pass is over in which the gate passed over the pending second item,
\* whose embedding is orthogonal to the transcript's, and in which no
\* request went out
C29_Witness ==
  /\ sPc = "done" /\ Len(sItems) = 2 /\ sTextEmb = Some(<<0, 1>>)
  /\ sItems[2].status = "pending" /\ sItems[2].embedding = Some(<<1, 0>>)
  /\ sSent = <<0, 0>> /\ sUpdates = <<>>

\* C30: the change set of a scoring pass holds exactly the ids of the items
\* whose score changed: the step that ends an item's turn pushes the item's
\* id exactly when it changed the item's score, and no other step touches
\* the set.
C30_Original ==
  [][IF sPc = "wait" /\ sPc' = "loop"
       THEN IF sItems'[sIdx].score # sItems[sIdx].score
              THEN sUpdates' = Append(sUpdates, sItems[sIdx].id)
              ELSE sUpdates' = sUpdates
       ELSE sUpdates' = sUpdates]_vars

\* C30, amended: the change set of a scoring pass holds exactly the ids of
\* the items for which the reply was a ScoreResponse reporting a match, in
\* the order of the items: every item whose score changed is in it, and so
\* is an item whose matching reply repeats the score it had; only the step
\* that ends an item's turn touches the set or the item.
C30_ChangeSetIsMatches ==
  [][IF sPc = "wait" /\ sPc' = "loop"
       THEN LET o == ParseReply(sReply)
            IN IF o.kind = "scored" /\ o.rec.is_match
                 THEN /\ sUpdates' = Append(sUpdates, sItems[sIdx].id)
                      /\ sItems'[sIdx].score = o.rec.score
                 ELSE /\ sUpdates' = sUpdates
                      /\ sItems' = sItems
       ELSE sUpdates' = sUpdates /\ sItems' = sItems]_vars

\* a pass is over that returns the id of the first item, whose matching
\* reply repeated the score 0.5 it came with and brought no evidence
C30_Witness ==
  /\ sPc = "done" /\ Len(sItems) = 2 /\ sUpdates = <<"g1">>
  /\ sItems[1].id = "g1" /\ sItems[1].status = "captured"
  /\ sItems[1].score = 50 /\ sItems[1].evidence = <<"e">>

\* C31: after a configuration update every tunable has its new value for
\* the next transcription and what follows it: once update_config has
\* returned Ok for a configuration, a tick whose transcript was produced in
\* that configuration's language goes on to scan the agenda only with a
\* text of at least that configuration's ollama_min_chars.
C31_NewTunablesTakeEffect ==
  [][( /\ cOp = "update_config" /\ cPc = "ret" /\ cResult[1] = "ok"
       /\ cCfg.whisper_language = "pl" /\ whisper_language = "pl"
       /\ wPc = "written" /\ wPc' = "lock_agenda"
       /\ \E k \in 1..Len(wText) : wText[k] = "zdot" )
     => ByteLen(wText) >= cCfg.ollama_min_chars]_vars

C34_FirstBalancedObject ==
  callPc = "done" =>
    LET t == callArgs[2].text
        record == <<"{", "m", "}">>
    IN \A k \in 1..(Len(t) - 2) :
         ( /\ SubSeq(t, k, k + 2) = record
           /\ \A j \in 1..(k - 1) : t[j] \notin {"{", "}"} )
         => callRet = <<"ok", Scored(callArgs[1], callArgs[2].rec),
                        callArgs[2].rec.is_match>>
            \/ (~callArgs[2].rec.is_match /\ callRet = <<"ok", callArgs[1], FALSE>>)

\* C35: a reply that reports a match with the score s sets the item's
\* score to s, whatever it was, and the status follows s: answered from
\* 1.0 on, captured (in progress) between 0 and 1, and as it was, with the
\* answer as it was, for s <= 0; a reply that reports no match leaves
\* score, status, answer and evidence as they were, whatever score or
\* evidence it carries.
C35_ScoreReplacesAndDrivesStatus ==
  (callPc = "done" /\ callArgs[2].text = <<"{", "m", "}">>) =>
    LET item == callArgs[1]
        rec == callArgs[2].rec
        out == callRet[2]
    IN /\ callRet[1] = "ok"
       /\ out.id = item.id /\ out.text = item.text
       /\ IF rec.is_match
            THEN /\ out.score = rec.score
                 /\ rec.score >= 100 => out.status = "answered"
                 /\ (rec.score > 0 /\ rec.score < 100) => out.status = "captured"
                 /\ rec.score <= 0 =>
                      out.status = item.status /\ out.answer = item.answer
            ELSE out = item /\ callRet[3] = FALSE

\* a match with the score 1.0 has made the captured item, which had 0.5,
\* an answered item with the score 1.0
C35_Witness ==
  /\ callPc = "done" /\ callArgs[2].text = <<"{", "m", "}">>
  /\ callArgs[1].status = "captured" /\ callArgs[1].score = 50
  /\ callArgs[2].rec.is_match /\ callArgs[2].rec.score = 100
  /\ callRet[2].status = "answered" /\ callRet[2].score = 100

\* ----------------------------------------------------------------------
\* C36: whoever owns the sample-buffer lock owns no other lock and stands
\* at the single ingest, copy or clear it took the lock for: not in a
\* transcription, not in a backend request, not at another lock
C36_BufferLockAlone ==
  \A th \in Threads :
    lockOwner["buffer"] = th =>
      /\ Held(th) = {"buffer"}
      /\ th = "cb" => cbPc = "locked"
      /\ th = "worker" => wPc = "copy"
      /\ th = "cmd" => cPc \in {"tl_copy", "sd_clear", "cl_clear"}

\* the callback waits for the buffer while the worker copies it, a command
\* being in the middle of transcribe_latest
C36_Witness ==
  /\ lockOwner["buffer"] = "worker"
  /\ wPc = "copy"
  /\ buffer # <<>>
  /\ cbPc = "want"
  /\ cOp = "transcribe_latest" /\ cPc = "tl_lock_mode"

\* ----------------------------------------------------------------------
\* the ids and texts of a list of items, in order
IdsAndTexts(items) == [k \in 1..Len(items) |-> <<items[k].id, items[k].text>>]

\* C37: the agenda's items (ids and texts) are those of the most recent
\* bulk replace whatever a worker tick does around it: only the install of
\* update_agenda changes them, and it stores the list it was given; any
\* other change to an item is the tick's second agenda block marking an item
\* whose id is in the tick's updates and is still present, and no item is
\* put back
C37_ReplaceSurvivesTick ==
  [][IF cPc = "ua_install" /\ cPc' = "ret"
       THEN agenda' = cItems
       ELSE /\ IdsAndTexts(agenda') = IdsAndTexts(agenda)
            /\ \A k \in 1..Len(agenda) :
                 agenda'[k] # agenda[k] =>
                   /\ wPc = "apply"
                   /\ agenda[k].id \in wUpdates]_vars

\* a replace by the empty list has come between the tick's scan and its
\* second agenda block: the tick holds an update for an item that is gone
C37_Witness ==
  /\ wPc = "apply"
  /\ "g1" \in wUpdates
  /\ agenda = <<>>
  /\ cOp = "update_agenda" /\ cPc = "ret" /\ cResult[1] = "ok"

\* ----------------------------------------------------------------------
\* C38 as worded: in every state where the flag is off no callback ingests
\* (the volume-level emit follows the ingest in the same branch) and no
\* worker step changes the cache or the agenda
C38_Original ==
  [][~is_recording =>
       /\ ~(cbPc = "locked" /\ cbPc' = "idle")
       /\ wPc' # wPc => UNCHANGED <<cacheVars, agenda>>]_vars

\* C38: a callback that loads the flag while it is off does not go on to the
\* ingest and the emit, a worker that wakes while it is off does not go on
\* with the tick, and a store to the flag changes nothing but the flag (a
\* store of the value it already has is a step that changes nothing)
C38_DisabledAtCheckSkips ==
  [][/\ (~is_recording /\ cbPc = "idle") => cbPc' = "idle"
     /\ (~is_recording /\ wPc = "sleep") => wPc' = "sleep"
     /\ is_recording' # is_recording =>
          UNCHANGED <<bufVars, lockVars, cacheVars, cfgVars, agenda, wVars,
                      cVars, cbVars>>]_vars

\* recording has been switched off after samples were captured and a
\* transcript was cached; the callback and the worker are at their checks
C38_Witness ==
  /\ ~is_recording
  /\ cbPc = "idle" /\ wPc = "sleep"
  /\ buffer # <<>>
  /\ last_transcript # <<>>
  /\ agenda # <<>>

====
